---- MODULE Spec2Model ----
(***************************************************************************)
(* State-machine model of olah's MetricsCollector                          *)
(* (src/src/olah/utils/metrics.py).                                        *)
(*                                                                         *)
(* Threads are the caller threads and the background sampler thread.  A    *)
(* thread's position inside a method is pc[t]; one action is one statement *)
(* of the method.  `x += 1` on an attribute is a load followed by a store  *)
(* (two bytecode-level steps that another thread may separate), and        *)
(* `with self._lock:` is an acquire step and a release step.               *)
(*                                                                         *)
(* Floats are exact rationals [num, den] in lowest terms (Div); a division *)
(* by zero is the value ZeroDivisionError, which the dividing statement    *)
(* turns into a raised exception.  Time is an integer number of minutes.   *)
(***************************************************************************)
EXTENDS Integers, Sequences, FiniteSets, TLC

\* ------------------------------------------------------------------ bounds

\* the caller threads together start at most MaxCalls operations
MaxCalls == 3
\* the clock runs from 0 to MaxTime minutes
MaxTime == 1

\* the proxy layer stores and evicts at most MaxWrites files
MaxWrites == 1

\* caller threads and the background sampler thread
Callers == {"c1", "c2"}
Sampler == "bg"
Threads == Callers \cup {Sampler}

NoThread == "nobody"
\* Python's None (the empty tuple, which TLC can compare with records)
None == <<>>
\* None where a pair of I/O counters is expected (falsy, like the empty tuple)
NoCounters == <<>>
\* an integer held by a per-thread variable that is None between calls
AnInt(n) == [int |-> n]

\* ------------------------------------------------------------------ state

VARIABLES
    lock,               \* self._lock: the thread holding it, or NoThread
    pc,                 \* position of each thread
    max_history_size,   \* self.max_history_size
    request_history,    \* self.request_history: deque(maxlen=max_history_size)
    request_counts,     \* self.request_counts: endpoint -> int
    response_times,     \* self.response_times: endpoint -> list
    bytes_transferred,  \* self.bytes_transferred: endpoint -> int
    system_history,     \* self.system_history: deque(maxlen=1000)
    last_disk_io,       \* self._last_disk_io
    last_network_io,    \* self._last_network_io
    cache_hit_count,    \* self.cache_hit_count
    cache_miss_count,   \* self.cache_miss_count
    total_requests,     \* self.total_requests
    now,                \* datetime.now(), in minutes
    arg,                \* per thread: the argument of the running call
    tmp,                \* per thread: value loaded by the running statement
    cutoff_time,        \* per thread: local cutoff_time of get_request_stats
    recent_requests,    \* per thread: local recent_requests
    it,                 \* per thread: position of the running iteration
    ret,                \* per thread: what the last call returned or raised
    calls,              \* number of calls started so far, by operation
    recorded,           \* every metric appended by record_request, in order
    sampled,            \* the OS readings of every tick that appended a snapshot, in order
    frame,              \* per thread: the enclosing call that runs the current one
    metrics_collector,  \* the module global _metrics_collector
    created,            \* number of MetricsCollector() constructions so far
    collector,          \* per thread: local collector of the module-level functions
    focus,              \* the collector whose fields the variables above hold
    others,             \* the fields of the other collectors, by number
    fs,                 \* the cache tree on disk, in the order directories list it
    mount               \* how the file system of the cache keeps access times

reqVars   == <<request_history, request_counts, response_times, bytes_transferred>>
sysVars   == <<system_history, last_disk_io, last_network_io>>
cacheVars == <<cache_hit_count, cache_miss_count, total_requests>>
grsVars   == <<cutoff_time, recent_requests, it>>
glVars    == <<metrics_collector, created, collector, focus, others>>
vars == <<lock, pc, max_history_size, reqVars, sysVars, cacheVars, now,
          arg, tmp, grsVars, ret, calls, recorded, sampled, frame, glVars, fs,
          mount>>

\* ------------------------------------------------------------- arithmetic

RECURSIVE GCD(_, _)
GCD(a, b) == IF b = 0 THEN a ELSE GCD(b, a % b)

\* the value of a division that raises ZeroDivisionError
ZeroDivisionError == [num |-> 0, den |-> 0]

\* float division a / b of non-negative numbers, as an exact rational
Div(a, b) ==
    IF b = 0 THEN ZeroDivisionError
    ELSE LET g == GCD(a, b) IN [num |-> a \div g, den |-> b \div g]

\* float multiplication of a rational by an integer
Mul(q, k) ==
    IF q = ZeroDivisionError THEN ZeroDivisionError
    ELSE Div(q.num * k, q.den)

\* the float literal 0.0
Zero == [num |-> 0, den |-> 1]

\* ------------------------------------------------------------ call frames

\* the operations caller threads invoke, the sampler thread's loop
\* collect_system_metrics, whose rounds are counted, and the writes of the
\* proxy layer to the cache tree
OpNames == {"record_request", "record_cache_hit", "record_cache_miss",
            "get_request_stats", "get_cache_stats", "get_system_stats",
            "_collect_system_metrics", "collect_system_metrics",
            "export_prometheus_metrics", "dispatch", "get_metrics_collector",
            "metrics.record_cache_hit", "metrics.record_cache_miss",
            "proxy.store", "proxy.evict"}

NoCalls == [o \in OpNames |-> 0]

\* number of calls of operation o the caller threads started so far
Invoked(o) == calls[o]

NCalls ==
    Invoked("record_request") + Invoked("record_cache_hit")
    + Invoked("record_cache_miss") + Invoked("get_request_stats")
    + Invoked("get_cache_stats") + Invoked("get_system_stats")
    + Invoked("_collect_system_metrics")
    + Invoked("export_prometheus_metrics") + Invoked("dispatch")
    + Invoked("get_metrics_collector")
    + Invoked("metrics.record_cache_hit") + Invoked("metrics.record_cache_miss")

NoRet == [op |-> "none", exc |-> "", value |-> None]
Returned(o, v) == [op |-> o, exc |-> "", value |-> v]
Raised(o, e) == [op |-> o, exc |-> e, value |-> None]

\* a caller thread starts operation o with argument a at label first
Call(t, o, a, first) ==
    /\ t \in Callers
    /\ pc[t] = "idle"
    /\ NCalls < MaxCalls
    /\ pc' = [pc EXCEPT ![t] = first]
    /\ arg' = [arg EXCEPT ![t] = a]
    /\ ret' = [ret EXCEPT ![t] = NoRet]
    /\ calls' = [calls EXCEPT ![o] = @ + 1]

Goto(t, from, to) ==
    /\ pc[t] = from
    /\ pc' = [pc EXCEPT ![t] = to]

\* `with self._lock:` blocks until the lock is free, then takes it
Acquire_NoMutex(t, from, to) ==
    /\ Goto(t, from, to)
    /\ lock' = t

Acquire(t, from, to) ==
    /\ lock = NoThread
    /\ Goto(t, from, to)
    /\ lock' = t

\* a thread that runs no enclosing call
NoFrame == [op |-> "none", locals |-> <<>>]

\* the module-level functions record_cache_hit() and record_cache_miss(),
\* which get the global collector and call its method of the same name
ModuleRecorders == {"metrics.record_cache_hit", "metrics.record_cache_miss"}

\* the statement of the enclosing call that follows the call returning at
\* label from
ResumeAt(op, from) ==
    IF op = "export_prometheus_metrics"
    THEN IF from = "grs_exit" THEN "exp_system"
         ELSE IF from = "gss_exit" THEN "exp_cache"
         ELSE "exp_join"
    ELSE IF op = "dispatch" THEN "mw_return"
    ELSE "idle"

\* where a thread is between calls: the sampler thread is inside its loop
\* (at time.sleep(5) when the round returned, in the except clause when it
\* raised), a call made by an enclosing call returns into it
Home(t) ==
    IF t = Sampler
    THEN IF ret[t].exc # "" THEN "bg_except" ELSE "bg_sleep"
    ELSE ResumeAt(frame[t].op, pc[t])

\* the enclosing call binds the value returned at label from to its local;
\* a module-level recorder has no statement after the method call and
\* returns with it
Bind(f, from, r) ==
    IF f.op = "export_prometheus_metrics"
    THEN [f EXCEPT !.locals =
            IF from = "grs_exit" THEN [@ EXCEPT !.request_stats = r.value]
            ELSE IF from = "gss_exit" THEN [@ EXCEPT !.system_stats = r.value]
            ELSE [@ EXCEPT !.cache_stats = r.value]]
    ELSE IF f.op \in ModuleRecorders THEN NoFrame
    ELSE f

\* a statement of an enclosing call calls operation o with argument a
NestedCall(t, from, a, first) ==
    /\ Goto(t, from, first)
    /\ arg' = [arg EXCEPT ![t] = a]
    /\ ret' = [ret EXCEPT ![t] = NoRet]

\* a `return` inside the block that leaves without releasing
Release_EarlyReturnKeepsLock(t, from) ==
    /\ Goto(t, from, Home(t))
    /\ lock' = IF \/ from = "grs_exit" /\ recent_requests[t] = <<>>
                  \/ from = "gss_exit" /\ system_history = <<>>
               THEN lock ELSE NoThread
    /\ arg' = [arg EXCEPT ![t] = None]
    /\ tmp' = [tmp EXCEPT ![t] = None]
    /\ ret' = [ret EXCEPT ![t] = NoRet]
    /\ frame' = [frame EXCEPT ![t] = Bind(@, from, ret[t])]

\* leaving the `with` block releases the lock and the call returns: the
\* frame of the call is gone and the value it hands to its caller is bound
\* by the enclosing call, if there is one
Release(t, from) ==
    /\ Goto(t, from, Home(t))
    /\ lock' = NoThread
    /\ arg' = [arg EXCEPT ![t] = None]
    /\ tmp' = [tmp EXCEPT ![t] = None]
    /\ ret' = [ret EXCEPT ![t] = NoRet]
    /\ frame' = [frame EXCEPT ![t] = Bind(@, from, ret[t])]

\* ------------------------------------------------------- record_cache_hit

RchCall(t) ==
    /\ Call(t, "record_cache_hit", None, "rch_with")
    /\ UNCHANGED <<lock, max_history_size, reqVars, sysVars, cacheVars, now,
                   tmp, grsVars, recorded,
                   sampled, frame, glVars, fs, mount>>

RchAcquire(t) ==
    /\ Acquire(t, "rch_with", "rch_hit_load")
    /\ UNCHANGED <<max_history_size, reqVars, sysVars, cacheVars, now,
                   arg, tmp, grsVars, ret, calls, recorded,
                   sampled, frame, glVars, fs, mount>>

\* self.cache_hit_count += 1
RchLoadHit(t) ==
    /\ Goto(t, "rch_hit_load", "rch_hit_store")
    /\ tmp' = [tmp EXCEPT ![t] = AnInt(cache_hit_count)]
    /\ UNCHANGED <<lock, max_history_size, reqVars, sysVars, cacheVars, now,
                   arg, grsVars, ret, calls, recorded,
                   sampled, frame, glVars, fs, mount>>

RchStoreHit(t) ==
    /\ Goto(t, "rch_hit_store", "rch_total_load")
    /\ cache_hit_count' = tmp[t].int + 1
    /\ UNCHANGED <<lock, max_history_size, reqVars, sysVars, cache_miss_count,
                   total_requests, now, arg, tmp, grsVars, ret, calls, recorded,
                   sampled, frame, glVars, fs, mount>>

\* self.total_requests += 1
RchLoadTotal(t) ==
    /\ Goto(t, "rch_total_load", "rch_total_store")
    /\ tmp' = [tmp EXCEPT ![t] = AnInt(total_requests)]
    /\ UNCHANGED <<lock, max_history_size, reqVars, sysVars, cacheVars, now,
                   arg, grsVars, ret, calls, recorded,
                   sampled, frame, glVars, fs, mount>>

RchStoreTotal(t) ==
    /\ Goto(t, "rch_total_store", "rch_exit")
    /\ total_requests' = tmp[t].int + 1
    /\ UNCHANGED <<lock, max_history_size, reqVars, sysVars, cache_hit_count,
                   cache_miss_count, now, arg, tmp, grsVars, ret, calls, recorded,
                   sampled, frame, glVars, fs, mount>>

RchRelease(t) ==
    /\ Release(t, "rch_exit")
    /\ UNCHANGED <<max_history_size, reqVars, sysVars, cacheVars, now,
                   grsVars, calls, recorded,
                   sampled, glVars, fs, mount>>

\* ------------------------------------------------------ record_cache_miss

RcmCall(t) ==
    /\ Call(t, "record_cache_miss", None, "rcm_with")
    /\ UNCHANGED <<lock, max_history_size, reqVars, sysVars, cacheVars, now,
                   tmp, grsVars, recorded,
                   sampled, frame, glVars, fs, mount>>

RcmAcquire(t) ==
    /\ Acquire(t, "rcm_with", "rcm_miss_load")
    /\ UNCHANGED <<max_history_size, reqVars, sysVars, cacheVars, now,
                   arg, tmp, grsVars, ret, calls, recorded,
                   sampled, frame, glVars, fs, mount>>

\* self.cache_miss_count += 1
RcmLoadMiss(t) ==
    /\ Goto(t, "rcm_miss_load", "rcm_miss_store")
    /\ tmp' = [tmp EXCEPT ![t] = AnInt(cache_miss_count)]
    /\ UNCHANGED <<lock, max_history_size, reqVars, sysVars, cacheVars, now,
                   arg, grsVars, ret, calls, recorded,
                   sampled, frame, glVars, fs, mount>>

RcmStoreMiss(t) ==
    /\ Goto(t, "rcm_miss_store", "rcm_total_load")
    /\ cache_miss_count' = tmp[t].int + 1
    /\ UNCHANGED <<lock, max_history_size, reqVars, sysVars, cache_hit_count,
                   total_requests, now, arg, tmp, grsVars, ret, calls, recorded,
                   sampled, frame, glVars, fs, mount>>

\* self.total_requests += 1
RcmLoadTotal(t) ==
    /\ Goto(t, "rcm_total_load", "rcm_total_store")
    /\ tmp' = [tmp EXCEPT ![t] = AnInt(total_requests)]
    /\ UNCHANGED <<lock, max_history_size, reqVars, sysVars, cacheVars, now,
                   arg, grsVars, ret, calls, recorded,
                   sampled, frame, glVars, fs, mount>>

RcmStoreTotal_Forgotten(t) ==
    /\ Goto(t, "rcm_total_store", "rcm_exit")
    /\ UNCHANGED <<lock, max_history_size, reqVars, sysVars, cacheVars, now,
                   arg, tmp, grsVars, ret, calls, recorded,
                   sampled, frame, glVars, fs, mount>>

RcmStoreTotal(t) ==
    /\ Goto(t, "rcm_total_store", "rcm_exit")
    /\ total_requests' = tmp[t].int + 1
    /\ UNCHANGED <<lock, max_history_size, reqVars, sysVars, cache_hit_count,
                   cache_miss_count, now, arg, tmp, grsVars, ret, calls, recorded,
                   sampled, frame, glVars, fs, mount>>

RcmRelease(t) ==
    /\ Release(t, "rcm_exit")
    /\ UNCHANGED <<max_history_size, reqVars, sysVars, cacheVars, now,
                   grsVars, calls, recorded,
                   sampled, glVars, fs, mount>>

\* -------------------------------------------------------- get_cache_stats

\* hit_rate of get_cache_stats: 0.0 when nothing was recorded
HitRate_NoZeroCheck(hits, total) == Mul(Div(hits, total), 100)

HitRate(hits, total) ==
    IF total = 0 THEN Zero ELSE Mul(Div(hits, total), 100)

GcsCall(t) ==
    /\ Call(t, "get_cache_stats", None, "gcs_with")
    /\ UNCHANGED <<lock, max_history_size, reqVars, sysVars, cacheVars, now,
                   tmp, grsVars, recorded,
                   sampled, frame, glVars, fs, mount>>

GcsAcquire_NoLock(t) ==
    /\ Goto(t, "gcs_with", "gcs_rate")
    /\ UNCHANGED <<lock, max_history_size, reqVars, sysVars, cacheVars, now,
                   arg, tmp, grsVars, ret, calls, recorded,
                   sampled, frame, glVars, fs, mount>>

GcsAcquire(t) ==
    /\ Acquire(t, "gcs_with", "gcs_rate")
    /\ UNCHANGED <<max_history_size, reqVars, sysVars, cacheVars, now,
                   arg, tmp, grsVars, ret, calls, recorded,
                   sampled, frame, glVars, fs, mount>>

\* if self.total_requests == 0: hit_rate = 0.0  else: hit_rate = hits / total * 100
GcsHitRate(t) ==
    /\ pc[t] = "gcs_rate"
    /\ LET rate == HitRate(cache_hit_count, total_requests) IN
       IF rate = ZeroDivisionError
       THEN /\ pc' = [pc EXCEPT ![t] = "gcs_exit"]
            /\ ret' = [ret EXCEPT ![t] = Raised("get_cache_stats", "ZeroDivisionError")]
            /\ tmp' = tmp
       ELSE /\ pc' = [pc EXCEPT ![t] = "gcs_dict"]
            /\ tmp' = [tmp EXCEPT ![t] = rate]
            /\ ret' = ret
    /\ UNCHANGED <<lock, max_history_size, reqVars, sysVars, cacheVars, now,
                   arg, grsVars, calls, recorded,
                   sampled, frame, glVars, fs, mount>>

GcsDict_ReadAndReset(t) ==
    /\ Goto(t, "gcs_dict", "gcs_exit")
    /\ ret' = [ret EXCEPT ![t] = Returned("get_cache_stats",
                  [total_requests   |-> total_requests,
                   cache_hits       |-> cache_hit_count,
                   cache_misses     |-> cache_miss_count,
                   hit_rate_percent |-> tmp[t]])]
    /\ cache_hit_count' = 0
    /\ cache_miss_count' = 0
    /\ total_requests' = 0
    /\ UNCHANGED <<lock, max_history_size, reqVars, sysVars, now,
                   arg, tmp, grsVars, calls, recorded,
                   sampled, frame, glVars, fs, mount>>

\* return {"total_requests": ..., "cache_hits": ..., "cache_misses": ..., "hit_rate_percent": ...}
GcsDict(t) ==
    /\ Goto(t, "gcs_dict", "gcs_exit")
    /\ ret' = [ret EXCEPT ![t] = Returned("get_cache_stats",
                  [total_requests   |-> total_requests,
                   cache_hits       |-> cache_hit_count,
                   cache_misses     |-> cache_miss_count,
                   hit_rate_percent |-> tmp[t]])]
    /\ UNCHANGED <<lock, max_history_size, reqVars, sysVars, cacheVars, now,
                   arg, tmp, grsVars, calls, recorded,
                   sampled, frame, glVars, fs, mount>>

GcsRelease(t) ==
    /\ Release(t, "gcs_exit")
    /\ UNCHANGED <<max_history_size, reqVars, sysVars, cacheVars, now,
                   grsVars, calls, recorded,
                   sampled, glVars, fs, mount>>

\* ------------------------------------------------------------ collections

\* d[k] = v on a dict
Put(d, k, v) == [x \in DOMAIN d \cup {k} |-> IF x = k THEN v ELSE d[x]]

\* reading d[k] on a defaultdict inserts default_factory() for a missing key
Touch(d, k, default) == IF k \in DOMAIN d THEN d ELSE Put(d, k, default)

\* deque(maxlen=n).append(x): a full deque drops its oldest entry first
DequeAppend_Unbounded(d, x, maxlen) == Append(d, x)

DequeAppend(d, x, maxlen) ==
    IF maxlen = 0 THEN d
    ELSE IF Len(d) >= maxlen THEN Append(Tail(d), x)
    ELSE Append(d, x)

\* list[-n:]
LastN(l, n) == IF Len(l) <= n THEN l ELSE SubSeq(l, Len(l) - n + 1, Len(l))

\* --------------------------------------------------------- RequestMetrics

\* capacity of request_history, chosen by the constructor's caller
MaxCapacity == 2
Capacities == 1..MaxCapacity

RequestTemplates ==
    { [method |-> "GET",  path |-> "/a", status_code |-> 200,
       response_time |-> 1, bytes_sent |-> 2, bytes_received |-> 1],
      [method |-> "GET",  path |-> "/a", status_code |-> 404,
       response_time |-> 2, bytes_sent |-> 0, bytes_received |-> 1],
      [method |-> "POST", path |-> "/b", status_code |-> 200,
       response_time |-> 4, bytes_sent |-> 3, bytes_received |-> 0] }

\* the timestamps metrics are recorded with
Timestamps == {0, 1}

\* RequestMetrics(...): the timestamp is datetime.now() unless the caller sets it
RequestMetrics(tpl, ts) ==
    [method |-> tpl.method, path |-> tpl.path, status_code |-> tpl.status_code,
     response_time |-> tpl.response_time, bytes_sent |-> tpl.bytes_sent,
     bytes_received |-> tpl.bytes_received, timestamp |-> ts]

\* f"{metrics.method} {metrics.path}"
Endpoint(m) == m.method \o " " \o m.path

\* keep the last 500 response times once the list holds more than 1000
ResponseTimesTrimAbove == 1000
ResponseTimesKeep == 500

TrackResponseTime_KeepOldest(l, rt) ==
    Append(IF Len(l) > ResponseTimesTrimAbove THEN SubSeq(l, 1, ResponseTimesKeep) ELSE l, rt)

TrackResponseTime(l, rt) ==
    Append(IF Len(l) > ResponseTimesTrimAbove THEN LastN(l, ResponseTimesKeep) ELSE l, rt)

\* --------------------------------------------------------- record_request

RrCall(t) ==
    /\ \E tpl \in RequestTemplates, ts \in Timestamps :
          Call(t, "record_request", RequestMetrics(tpl, ts), "rr_with")
    /\ UNCHANGED <<lock, max_history_size, reqVars, sysVars, cacheVars, now,
                   tmp, grsVars, recorded,
                   sampled, frame, glVars, fs, mount>>

RrAcquire_NoLock(t) ==
    /\ Goto(t, "rr_with", "rr_append")
    /\ UNCHANGED <<lock, max_history_size, reqVars, sysVars, cacheVars, now,
                   arg, tmp, grsVars, ret, calls, recorded,
                   sampled, frame, glVars, fs, mount>>

RrAcquire(t) ==
    /\ Acquire(t, "rr_with", "rr_append")
    /\ UNCHANGED <<max_history_size, reqVars, sysVars, cacheVars, now,
                   arg, tmp, grsVars, ret, calls, recorded,
                   sampled, frame, glVars, fs, mount>>

\* self.request_history.append(metrics)
RrAppend(t) ==
    /\ Goto(t, "rr_append", "rr_count_load")
    /\ request_history' = DequeAppend(request_history, arg[t], max_history_size)
    /\ recorded' = Append(recorded, arg[t])
    /\ UNCHANGED <<lock, max_history_size, request_counts, response_times,
                   bytes_transferred, sysVars, cacheVars, now, arg, tmp,
                   grsVars, ret, calls,
                   sampled, frame, glVars, fs, mount>>

\* self.request_counts[endpoint] += 1
RrLoadCount(t) ==
    /\ Goto(t, "rr_count_load", "rr_count_store")
    /\ request_counts' = Touch(request_counts, Endpoint(arg[t]), 0)
    /\ tmp' = [tmp EXCEPT ![t] = AnInt(request_counts'[Endpoint(arg[t])])]
    /\ UNCHANGED <<lock, max_history_size, request_history, response_times,
                   bytes_transferred, sysVars, cacheVars, now, arg, grsVars,
                   ret, calls, recorded,
                   sampled, frame, glVars, fs, mount>>

RrStoreCount_CountsRequestAsCacheRequest(t) ==
    /\ Goto(t, "rr_count_store", "rr_times")
    /\ request_counts' = Put(request_counts, Endpoint(arg[t]), tmp[t].int + 1)
    /\ total_requests' = total_requests + 1
    /\ UNCHANGED <<lock, max_history_size, request_history, response_times,
                   bytes_transferred, sysVars, cache_hit_count, cache_miss_count,
                   now, arg, tmp, grsVars, ret, calls, recorded,
                   sampled, frame, glVars, fs, mount>>

RrStoreCount(t) ==
    /\ Goto(t, "rr_count_store", "rr_times")
    /\ request_counts' = Put(request_counts, Endpoint(arg[t]), tmp[t].int + 1)
    /\ UNCHANGED <<lock, max_history_size, request_history, response_times,
                   bytes_transferred, sysVars, cacheVars, now, arg, tmp,
                   grsVars, ret, calls, recorded,
                   sampled, frame, glVars, fs, mount>>

\* if len(self.response_times[endpoint]) > 1000: ... = ...[-500:]
\* self.response_times[endpoint].append(metrics.response_time)
RrTimes(t) ==
    /\ Goto(t, "rr_times", "rr_bytes_load")
    /\ LET e == Endpoint(arg[t])
           l == Touch(response_times, e, <<>>)[e]
       IN response_times' = Put(response_times, e,
                                TrackResponseTime(l, arg[t].response_time))
    /\ UNCHANGED <<lock, max_history_size, request_history, request_counts,
                   bytes_transferred, sysVars, cacheVars, now, arg, tmp,
                   grsVars, ret, calls, recorded,
                   sampled, frame, glVars, fs, mount>>

\* self.bytes_transferred[endpoint] += metrics.bytes_sent + metrics.bytes_received
RrLoadBytes(t) ==
    /\ Goto(t, "rr_bytes_load", "rr_bytes_store")
    /\ bytes_transferred' = Touch(bytes_transferred, Endpoint(arg[t]), 0)
    /\ tmp' = [tmp EXCEPT ![t] = AnInt(bytes_transferred'[Endpoint(arg[t])])]
    /\ UNCHANGED <<lock, max_history_size, request_history, request_counts,
                   response_times, sysVars, cacheVars, now, arg, grsVars,
                   ret, calls, recorded,
                   sampled, frame, glVars, fs, mount>>

RrStoreBytes_SentOnly(t) ==
    /\ Goto(t, "rr_bytes_store", "rr_exit")
    /\ bytes_transferred' = Put(bytes_transferred, Endpoint(arg[t]),
                                tmp[t].int + arg[t].bytes_sent)
    /\ UNCHANGED <<lock, max_history_size, request_history, request_counts,
                   response_times, sysVars, cacheVars, now, arg, tmp,
                   grsVars, ret, calls, recorded,
                   sampled, frame, glVars, fs, mount>>

RrStoreBytes(t) ==
    /\ Goto(t, "rr_bytes_store", "rr_exit")
    /\ bytes_transferred' = Put(bytes_transferred, Endpoint(arg[t]),
                                tmp[t].int + arg[t].bytes_sent + arg[t].bytes_received)
    /\ UNCHANGED <<lock, max_history_size, request_history, request_counts,
                   response_times, sysVars, cacheVars, now, arg, tmp,
                   grsVars, ret, calls, recorded,
                   sampled, frame, glVars, fs, mount>>

RrRelease(t) ==
    /\ Release(t, "rr_exit")
    /\ UNCHANGED <<max_history_size, reqVars, sysVars, cacheVars, now,
                   grsVars, calls, recorded,
                   sampled, glVars, fs, mount>>

\* ------------------------------------------------------ get_request_stats

\* time_window_minutes arguments
Windows == {0, 1}

\* sum(...) over a list of numbers
RECURSIVE Sum(_)
Sum(l) == IF l = <<>> THEN 0 ELSE Head(l) + Sum(Tail(l))

ResponseTimesOf(l) == [i \in 1..Len(l) |-> l[i].response_time]
BytesOf(l) == [i \in 1..Len(l) |-> l[i].bytes_sent + l[i].bytes_received]

\* if req.timestamp >= cutoff_time
InWindow_Strict(req, cutoff) == req.timestamp > cutoff

InWindow(req, cutoff) == req.timestamp >= cutoff

\* for req in recent_requests: status_codes[req.status_code] += 1
RECURSIVE StatusCodes(_, _)
StatusCodes(l, acc) ==
    IF l = <<>> THEN acc
    ELSE LET k == Head(l).status_code
         IN StatusCodes(Tail(l), Put(acc, k, Touch(acc, k, 0)[k] + 1))

\* for req in recent_requests: endpoints[endpoint]["count"] += 1; ["bytes"] += ...
RECURSIVE EndpointTotals(_, _)
EndpointTotals(l, acc) ==
    IF l = <<>> THEN acc
    ELSE LET req == Head(l)
             k == Endpoint(req)
             old == Touch(acc, k, [count |-> 0, avg_time |-> Zero, bytes |-> 0])[k]
         IN EndpointTotals(Tail(l),
               Put(acc, k, [count    |-> old.count + 1,
                            avg_time |-> old.avg_time,
                            bytes    |-> old.bytes + req.bytes_sent + req.bytes_received]))

\* [req for req in recent_requests if f"{req.method} {req.path}" == endpoint]
EndpointRequests_All(recent, endpoint) == recent

EndpointRequests(recent, endpoint) ==
    SelectSeq(recent, LAMBDA req : Endpoint(req) = endpoint)

\* for endpoint in endpoints: endpoints[endpoint]["avg_time"] = sum(...) / len(...)
EndpointStats(recent) ==
    LET totals == EndpointTotals(recent, <<>>)
    IN [e \in DOMAIN totals |->
          LET endpoint_requests == EndpointRequests(recent, e)
          IN IF endpoint_requests # <<>>
             THEN [totals[e] EXCEPT !.avg_time =
                      Div(Sum(ResponseTimesOf(endpoint_requests)), Len(endpoint_requests))]
             ELSE totals[e]]

ZeroRequestStats ==
    [total_requests |-> 0, avg_response_time |-> Zero,
     total_bytes_transferred |-> 0, status_codes |-> <<>>, endpoints |-> <<>>]

\* the statistics computed from the non-empty list recent_requests
ComputeRequestStats(recent) ==
    [total_requests          |-> Len(recent),
     avg_response_time       |-> Div(Sum(ResponseTimesOf(recent)), Len(recent)),
     total_bytes_transferred |-> Sum(BytesOf(recent)),
     status_codes            |-> StatusCodes(recent, <<>>),
     endpoints               |-> EndpointStats(recent)]

RequestStats_NoEmptyCheck(recent) == ComputeRequestStats(recent)

\* if not recent_requests: return {zeros}
RequestStats(recent) ==
    IF recent = <<>> THEN ZeroRequestStats ELSE ComputeRequestStats(recent)

GrsCall(t) ==
    /\ \E w \in Windows : Call(t, "get_request_stats", AnInt(w), "grs_cutoff")
    /\ UNCHANGED <<lock, max_history_size, reqVars, sysVars, cacheVars, now,
                   tmp, grsVars, recorded,
                   sampled, frame, glVars, fs, mount>>

\* cutoff_time = datetime.now() - timedelta(minutes=time_window_minutes)
GrsCutoff(t) ==
    /\ Goto(t, "grs_cutoff", "grs_with")
    /\ cutoff_time' = [cutoff_time EXCEPT ![t] = AnInt(now - arg[t].int)]
    /\ UNCHANGED <<lock, max_history_size, reqVars, sysVars, cacheVars, now,
                   arg, tmp, recent_requests, it, ret, calls, recorded,
                   sampled, frame, glVars, fs, mount>>

GrsAcquire_NoLock(t) ==
    /\ Goto(t, "grs_with", "grs_filter")
    /\ recent_requests' = [recent_requests EXCEPT ![t] = <<>>]
    /\ it' = [it EXCEPT ![t] = 1]
    /\ UNCHANGED <<lock, max_history_size, reqVars, sysVars, cacheVars, now,
                   arg, tmp, cutoff_time, ret, calls, recorded,
                   sampled, frame, glVars, fs, mount>>

GrsAcquire(t) ==
    /\ Acquire(t, "grs_with", "grs_filter")
    /\ recent_requests' = [recent_requests EXCEPT ![t] = <<>>]
    /\ it' = [it EXCEPT ![t] = 1]
    /\ UNCHANGED <<max_history_size, reqVars, sysVars, cacheVars, now,
                   arg, tmp, cutoff_time, ret, calls, recorded,
                   sampled, frame, glVars, fs, mount>>

\* one round of [req for req in self.request_history if req.timestamp >= cutoff_time]
GrsFilter(t) ==
    /\ pc[t] = "grs_filter"
    /\ it[t] <= Len(request_history)
    /\ LET req == request_history[it[t]] IN
       recent_requests' = [recent_requests EXCEPT ![t] =
           IF InWindow(req, cutoff_time[t].int) THEN Append(@, req) ELSE @]
    /\ it' = [it EXCEPT ![t] = @ + 1]
    /\ UNCHANGED <<lock, pc, max_history_size, reqVars, sysVars, cacheVars, now,
                   arg, tmp, cutoff_time, ret, calls, recorded,
                   sampled, frame, glVars, fs, mount>>

\* the iteration is exhausted
GrsFilterEnd(t) ==
    /\ it[t] > Len(request_history)
    /\ Goto(t, "grs_filter", "grs_stats")
    /\ UNCHANGED <<lock, max_history_size, reqVars, sysVars, cacheVars, now,
                   arg, tmp, grsVars, ret, calls, recorded,
                   sampled, frame, glVars, fs, mount>>

\* lines 233-275: the early return, or the statistics of recent_requests
GrsStats(t) ==
    /\ Goto(t, "grs_stats", "grs_exit")
    /\ LET stats == RequestStats(recent_requests[t]) IN
       ret' = [ret EXCEPT ![t] =
           IF stats.avg_response_time = ZeroDivisionError
           THEN Raised("get_request_stats", "ZeroDivisionError")
           ELSE Returned("get_request_stats", stats)]
    /\ UNCHANGED <<lock, max_history_size, reqVars, sysVars, cacheVars, now,
                   arg, tmp, grsVars, calls, recorded,
                   sampled, frame, glVars, fs, mount>>

GrsRelease(t) ==
    /\ Release(t, "grs_exit")
    /\ cutoff_time' = [cutoff_time EXCEPT ![t] = None]
    /\ recent_requests' = [recent_requests EXCEPT ![t] = <<>>]
    /\ it' = [it EXCEPT ![t] = 0]
    /\ UNCHANGED <<max_history_size, reqVars, sysVars, cacheVars, now,
                   calls, recorded,
                   sampled, glVars, fs, mount>>

\* ------------------------------------------------------------------ clock

Tick ==
    /\ now < MaxTime
    /\ now' = now + 1
    /\ UNCHANGED <<lock, pc, max_history_size, reqVars, sysVars, cacheVars,
                   arg, tmp, grsVars, ret, calls, recorded,
                   sampled, frame, glVars, fs, mount>>

\* ------------------------------------------------ _collect_system_metrics

\* the sampler thread runs at most MaxTicks rounds of its loop
MaxTicks == 2

\* self.system_history = deque(maxlen=1000)
SystemHistoryMaxLen == 1000

\* what psutil returns in one round (kept in arg while the round runs);
\* ok = FALSE when one of the reads raises.
\* disk_io / net_io are the cumulative counters, or NoCounters for None.
OSReadings ==
    { [ok |-> TRUE, cpu_percent |-> 10, memory_percent |-> 40, disk_used |-> 1,
       disk_total |-> 2, disk_io |-> <<1, 2>>, net_io |-> <<2, 1>>],
      [ok |-> TRUE, cpu_percent |-> 50, memory_percent |-> 60, disk_used |-> 1,
       disk_total |-> 4, disk_io |-> <<3, 5>>, net_io |-> <<4, 4>>],
      [ok |-> TRUE, cpu_percent |-> 30, memory_percent |-> 40, disk_used |-> 1,
       disk_total |-> 2, disk_io |-> NoCounters, net_io |-> NoCounters],
      [ok |-> FALSE, cpu_percent |-> 0, memory_percent |-> 0, disk_used |-> 0,
       disk_total |-> 0, disk_io |-> NoCounters, net_io |-> NoCounters] }

\* truth value of a counters object or tuple
Truthy(x) == x # NoCounters

\* x.read_bytes if x else 0
FirstOr0(x) == IF Truthy(x) THEN x[1] ELSE 0
SecondOr0(x) == IF Truthy(x) THEN x[2] ELSE 0

\* lines 180-191: current - previous when a previous reading exists, else 0
Delta_Cumulative(current, last, i) == IF Truthy(last) THEN current ELSE 0

Delta(current, last, i) == IF Truthy(last) THEN current - last[i] ELSE 0

\* the caller thread calls collector._collect_system_metrics() itself
CsmCall(t) ==
    /\ Call(t, "_collect_system_metrics", None, "csm_read")
    /\ UNCHANGED <<lock, max_history_size, reqVars, sysVars, cacheVars, now,
                   tmp, grsVars, recorded,
                   sampled, frame, glVars, fs, mount>>

\* while True: self._collect_system_metrics()
BgLoop ==
    /\ pc[Sampler] = "bg_loop"
    /\ calls["collect_system_metrics"] < MaxTicks
    /\ pc' = [pc EXCEPT ![Sampler] = "csm_read"]
    /\ calls' = [calls EXCEPT !["collect_system_metrics"] = @ + 1]
    /\ ret' = [ret EXCEPT ![Sampler] = NoRet]
    /\ UNCHANGED <<lock, max_history_size, reqVars, sysVars, cacheVars, now,
                   arg, tmp, grsVars, recorded,
                   sampled, frame, glVars, fs, mount>>

\* time.sleep(5) after a round that returned; in the except clause,
\* logger.error(...) and time.sleep(10)
BgSleep ==
    /\ pc[Sampler] \in {"bg_sleep", "bg_except"}
    /\ pc' = [pc EXCEPT ![Sampler] = "bg_loop"]
    /\ UNCHANGED <<lock, max_history_size, reqVars, sysVars, cacheVars, now,
                   arg, tmp, grsVars, ret, calls, recorded,
                   sampled, frame, glVars, fs, mount>>

\* lines 161-176: the psutil reads; any of them may raise
CsmRead(t) ==
    /\ pc[t] = "csm_read"
    /\ \E r \in OSReadings :
         LET pct == Mul(Div(r.disk_used, r.disk_total), 100) IN
         IF r.ok /\ pct # ZeroDivisionError
         THEN /\ pc' = [pc EXCEPT ![t] = "csm_delta"]
              /\ arg' = [arg EXCEPT ![t] = r]
              /\ tmp' = [tmp EXCEPT ![t] =
                    [cpu_percent            |-> r.cpu_percent,
                     memory_percent         |-> r.memory_percent,
                     disk_usage_percent     |-> pct,
                     disk_io                |-> r.disk_io,
                     network_io             |-> r.net_io,
                     disk_read_bytes        |-> FirstOr0(r.disk_io),
                     disk_write_bytes       |-> SecondOr0(r.disk_io),
                     network_bytes_sent     |-> FirstOr0(r.net_io),
                     network_bytes_received |-> SecondOr0(r.net_io)]]
         ELSE /\ pc' = [pc EXCEPT ![t] = "csm_except"]
              /\ arg' = arg
              /\ tmp' = tmp
    /\ UNCHANGED <<lock, max_history_size, reqVars, sysVars, cacheVars, now,
                   grsVars, ret, calls, recorded,
                   sampled, frame, glVars, fs, mount>>

\* line 179: if self._last_disk_io: ... else: both disk deltas are 0.
\* Each of lines 179, 180, 181, 186, 187, 188 reads the attribute again,
\* outside the lock, so each is a step of its own.
CsmDelta(t) ==
    /\ pc[t] = "csm_delta"
    /\ IF Truthy(last_disk_io)
       THEN /\ pc' = [pc EXCEPT ![t] = "csm_disk_read"]
            /\ tmp' = tmp
       ELSE /\ pc' = [pc EXCEPT ![t] = "csm_net"]
            /\ tmp' = [tmp EXCEPT ![t] =
                  [@ EXCEPT !.disk_read_bytes  = Delta(@, last_disk_io, 1),
                            !.disk_write_bytes = Delta(@, last_disk_io, 2)]]
    /\ UNCHANGED <<lock, max_history_size, reqVars, sysVars, cacheVars, now,
                   arg, grsVars, ret, calls, recorded,
                   sampled, frame, glVars, fs, mount>>

\* line 180: disk_read_bytes = disk_read_bytes - self._last_disk_io[0]
CsmDiskRead(t) ==
    /\ Goto(t, "csm_disk_read", "csm_disk_write")
    /\ tmp' = [tmp EXCEPT ![t] =
          [@ EXCEPT !.disk_read_bytes = Delta(@, last_disk_io, 1)]]
    /\ UNCHANGED <<lock, max_history_size, reqVars, sysVars, cacheVars, now,
                   arg, grsVars, ret, calls, recorded,
                   sampled, frame, glVars, fs, mount>>

\* line 181: disk_write_bytes = disk_write_bytes - self._last_disk_io[1]
CsmDiskWrite(t) ==
    /\ Goto(t, "csm_disk_write", "csm_net")
    /\ tmp' = [tmp EXCEPT ![t] =
          [@ EXCEPT !.disk_write_bytes = Delta(@, last_disk_io, 2)]]
    /\ UNCHANGED <<lock, max_history_size, reqVars, sysVars, cacheVars, now,
                   arg, grsVars, ret, calls, recorded,
                   sampled, frame, glVars, fs, mount>>

\* line 186: if self._last_network_io: ... else: both network deltas are 0
CsmNet(t) ==
    /\ pc[t] = "csm_net"
    /\ IF Truthy(last_network_io)
       THEN /\ pc' = [pc EXCEPT ![t] = "csm_net_sent"]
            /\ tmp' = tmp
       ELSE /\ pc' = [pc EXCEPT ![t] = "csm_store_disk"]
            /\ tmp' = [tmp EXCEPT ![t] =
                  [@ EXCEPT !.network_bytes_sent     = Delta(@, last_network_io, 1),
                            !.network_bytes_received = Delta(@, last_network_io, 2)]]
    /\ UNCHANGED <<lock, max_history_size, reqVars, sysVars, cacheVars, now,
                   arg, grsVars, ret, calls, recorded,
                   sampled, frame, glVars, fs, mount>>

\* line 187: network_bytes_sent = network_bytes_sent - self._last_network_io[0]
CsmNetSent(t) ==
    /\ Goto(t, "csm_net_sent", "csm_net_recv")
    /\ tmp' = [tmp EXCEPT ![t] =
          [@ EXCEPT !.network_bytes_sent = Delta(@, last_network_io, 1)]]
    /\ UNCHANGED <<lock, max_history_size, reqVars, sysVars, cacheVars, now,
                   arg, grsVars, ret, calls, recorded,
                   sampled, frame, glVars, fs, mount>>

\* line 188: network_bytes_received = network_bytes_received - self._last_network_io[1]
CsmNetRecv(t) ==
    /\ Goto(t, "csm_net_recv", "csm_store_disk")
    /\ tmp' = [tmp EXCEPT ![t] =
          [@ EXCEPT !.network_bytes_received = Delta(@, last_network_io, 2)]]
    /\ UNCHANGED <<lock, max_history_size, reqVars, sysVars, cacheVars, now,
                   arg, grsVars, ret, calls, recorded,
                   sampled, frame, glVars, fs, mount>>

\* lines 179-191, one read of a baseline at a time
CsmDeltas(t) ==
    \/ CsmDelta(t) \/ CsmDiskRead(t) \/ CsmDiskWrite(t)
    \/ CsmNet(t) \/ CsmNetSent(t) \/ CsmNetRecv(t)

\* if disk_io: self._last_disk_io = (disk_io.read_bytes, disk_io.write_bytes)
CsmStoreDisk_OnlyWithoutBaseline(t) ==
    /\ Goto(t, "csm_store_disk", "csm_store_net")
    /\ last_disk_io' = IF Truthy(tmp[t].disk_io) /\ ~Truthy(last_disk_io)
                       THEN tmp[t].disk_io ELSE last_disk_io
    /\ UNCHANGED <<lock, max_history_size, reqVars, system_history,
                   last_network_io, cacheVars, now, arg, tmp, grsVars, ret,
                   calls, recorded, sampled, frame, glVars, fs, mount>>

CsmStoreDisk(t) ==
    /\ Goto(t, "csm_store_disk", "csm_store_net")
    /\ last_disk_io' = IF Truthy(tmp[t].disk_io) THEN tmp[t].disk_io ELSE last_disk_io
    /\ UNCHANGED <<lock, max_history_size, reqVars, system_history,
                   last_network_io, cacheVars, now, arg, tmp, grsVars, ret,
                   calls, recorded,
                   sampled, frame, glVars, fs, mount>>

\* lines 196-197: if network_io: self._last_network_io = (network_io.bytes_sent,
\* network_io.bytes_recv)
CsmStoreNet(t) ==
    /\ Goto(t, "csm_store_net", "csm_metrics")
    /\ last_network_io' =
          IF Truthy(tmp[t].network_io) THEN tmp[t].network_io ELSE last_network_io
    /\ UNCHANGED <<lock, max_history_size, reqVars, system_history,
                   last_disk_io, cacheVars, now, arg, tmp, grsVars, ret, calls,
                   recorded,
                   sampled, frame, glVars, fs, mount>>

\* lines 199-207: metrics = SystemMetrics(...); the timestamp field's default
\* factory reads the clock here, after the baselines are stored and before
\* the lock is asked for
CsmMetrics(t) ==
    /\ Goto(t, "csm_metrics", "csm_with")
    /\ tmp' = [tmp EXCEPT ![t] =
          [cpu_percent            |-> @.cpu_percent,
           memory_percent         |-> @.memory_percent,
           disk_usage_percent     |-> @.disk_usage_percent,
           disk_read_bytes        |-> @.disk_read_bytes,
           disk_write_bytes       |-> @.disk_write_bytes,
           network_bytes_sent     |-> @.network_bytes_sent,
           network_bytes_received |-> @.network_bytes_received,
           timestamp              |-> now]]
    /\ UNCHANGED <<lock, max_history_size, reqVars, sysVars, cacheVars, now,
                   arg, grsVars, ret, calls, recorded,
                   sampled, frame, glVars, fs, mount>>

CsmAcquire(t) ==
    /\ Acquire(t, "csm_with", "csm_append")
    /\ UNCHANGED <<max_history_size, reqVars, sysVars, cacheVars, now,
                   arg, tmp, grsVars, ret, calls, recorded,
                   sampled, frame, glVars, fs, mount>>

\* self.system_history.append(metrics)
CsmAppend(t) ==
    /\ Goto(t, "csm_append", "csm_exit")
    /\ system_history' = DequeAppend(system_history, tmp[t], SystemHistoryMaxLen)
    /\ sampled' = Append(sampled, arg[t])
    /\ UNCHANGED <<lock, max_history_size, reqVars, last_disk_io,
                   last_network_io, cacheVars, now, arg, tmp, grsVars, ret,
                   calls, recorded,
                   frame, glVars, fs, mount>>

CsmRelease(t) ==
    /\ Release(t, "csm_exit")
    /\ UNCHANGED <<max_history_size, reqVars, sysVars, cacheVars, now,
                   grsVars, calls, recorded,
                   sampled, glVars, fs, mount>>

\* except Exception as e: logger.error(...), and the method returns normally
CsmExcept_Uncaught(t) ==
    /\ Goto(t, "csm_except", "thread_dead")
    /\ UNCHANGED <<lock, max_history_size, reqVars, sysVars, cacheVars, now,
                   arg, tmp, grsVars, ret, calls, recorded, sampled, frame,
                   glVars, fs, mount>>

CsmExcept_ForgetsBaselines(t) ==
    /\ Goto(t, "csm_except", Home(t))
    /\ ret' = [ret EXCEPT ![t] = NoRet]
    /\ arg' = [arg EXCEPT ![t] = None]
    /\ tmp' = [tmp EXCEPT ![t] = None]
    /\ last_disk_io' = NoCounters
    /\ last_network_io' = NoCounters
    /\ UNCHANGED <<lock, max_history_size, reqVars, system_history, cacheVars,
                   now, grsVars, calls, recorded, sampled, frame, glVars, fs,
                   mount>>

CsmExcept(t) ==
    /\ Goto(t, "csm_except", Home(t))
    /\ ret' = [ret EXCEPT ![t] = NoRet]
    /\ arg' = [arg EXCEPT ![t] = None]
    /\ tmp' = [tmp EXCEPT ![t] = None]
    /\ UNCHANGED <<lock, max_history_size, reqVars, sysVars, cacheVars, now,
                   grsVars, calls, recorded,
                   sampled, frame, glVars, fs, mount>>

\* ------------------------------------------------------- get_system_stats

\* list(self.system_history)[-10:]
SystemStatsRecent == 10

RecentMetrics_All(h) == h

RecentMetrics(h) == LastN(h, SystemStatsRecent)

CpuPercentsOf(l) == [i \in 1..Len(l) |-> l[i].cpu_percent]
MemoryPercentsOf(l) == [i \in 1..Len(l) |-> l[i].memory_percent]

\* if not self.system_history: return {zeros}
ZeroSystemStats ==
    [cpu_percent |-> Zero, memory_percent |-> Zero, disk_usage_percent |-> Zero,
     disk_io    |-> [read_bytes |-> 0, write_bytes |-> 0],
     network_io |-> [bytes_sent |-> 0, bytes_received |-> 0]]

\* lines 294-312: the latest snapshot and the averages over recent_metrics
ComputeSystemStats(h) ==
    LET latest == h[Len(h)]
        recent_metrics == RecentMetrics(h)
    IN [cpu_percent        |-> Div(Sum(CpuPercentsOf(recent_metrics)), Len(recent_metrics)),
        memory_percent     |-> Div(Sum(MemoryPercentsOf(recent_metrics)), Len(recent_metrics)),
        disk_usage_percent |-> latest.disk_usage_percent,
        disk_io    |-> [read_bytes  |-> latest.disk_read_bytes,
                        write_bytes |-> latest.disk_write_bytes],
        network_io |-> [bytes_sent     |-> latest.network_bytes_sent,
                        bytes_received |-> latest.network_bytes_received]]

SystemStats(h) ==
    IF h = <<>> THEN ZeroSystemStats ELSE ComputeSystemStats(h)

GssCall(t) ==
    /\ Call(t, "get_system_stats", None, "gss_with")
    /\ UNCHANGED <<lock, max_history_size, reqVars, sysVars, cacheVars, now,
                   tmp, grsVars, recorded, sampled, frame, glVars, fs,
                   mount>>

GssAcquire(t) ==
    /\ Acquire(t, "gss_with", "gss_stats")
    /\ UNCHANGED <<max_history_size, reqVars, sysVars, cacheVars, now,
                   arg, tmp, grsVars, ret, calls, recorded, sampled, frame,
                   glVars, fs, mount>>

\* lines 285-313: the early return, or the statistics of system_history
GssStats(t) ==
    /\ Goto(t, "gss_stats", "gss_exit")
    /\ LET stats == SystemStats(system_history) IN
       ret' = [ret EXCEPT ![t] =
           IF stats.cpu_percent = ZeroDivisionError
           THEN Raised("get_system_stats", "ZeroDivisionError")
           ELSE Returned("get_system_stats", stats)]
    /\ UNCHANGED <<lock, max_history_size, reqVars, sysVars, cacheVars, now,
                   arg, tmp, grsVars, calls, recorded, sampled, frame, glVars, fs,
                   mount>>

GssRelease(t) ==
    /\ Release(t, "gss_exit")
    /\ UNCHANGED <<max_history_size, reqVars, sysVars, cacheVars, now,
                   grsVars, calls, recorded, sampled, glVars, fs, mount>>

\* -------------------------------------------------- get_metrics_collector

\* collectors are numbered in the order MetricsCollector() builds them;
\* 0 is None.  Each construction starts one sampler thread.

GmcCall(t) ==
    /\ Call(t, "get_metrics_collector", None, "gmc_check")
    /\ UNCHANGED <<lock, max_history_size, reqVars, sysVars, cacheVars, now,
                   tmp, grsVars, recorded, sampled, frame, glVars, fs,
                   mount>>

\* if _metrics_collector is None:
GmcCheck(t) ==
    /\ pc[t] = "gmc_check"
    /\ pc' = [pc EXCEPT ![t] =
          IF metrics_collector = 0 THEN "gmc_construct" ELSE "gmc_return"]
    /\ UNCHANGED <<lock, max_history_size, reqVars, sysVars, cacheVars, now,
                   arg, tmp, grsVars, ret, calls, recorded, sampled, frame,
                   glVars, fs, mount>>

\* MetricsCollector(): max_history_size defaults to 10000
DefaultMaxHistorySize == 10000

\* the fields of a collector as __init__ leaves them, and its sampler
\* thread as _start_background_collection starts it
Fresh(c) ==
    [lock              |-> NoThread,
     max_history_size  |-> c,
     request_history   |-> <<>>,
     request_counts    |-> <<>>,
     response_times    |-> <<>>,
     bytes_transferred |-> <<>>,
     system_history    |-> <<>>,
     last_disk_io      |-> NoCounters,
     last_network_io   |-> NoCounters,
     cache_hit_count   |-> 0,
     cache_miss_count  |-> 0,
     total_requests    |-> 0,
     recorded          |-> <<>>,
     sampled           |-> <<>>,
     bg                |-> [pc |-> "bg_loop", arg |-> None, tmp |-> None,
                            ret |-> NoRet, frame |-> NoFrame]]

\* MetricsCollector(): a new collector, with fields and a sampler thread of
\* its own; the collector in focus and the others stay as they are
GmcConstruct(t) ==
    /\ Goto(t, "gmc_construct", "gmc_assign")
    /\ created' = created + 1
    /\ tmp' = [tmp EXCEPT ![t] = AnInt(created + 1)]
    /\ others' = [k \in DOMAIN others \cup {created + 1} |->
                     IF k = created + 1 THEN Fresh(DefaultMaxHistorySize)
                     ELSE others[k]]
    /\ UNCHANGED <<lock, max_history_size, reqVars, sysVars, cacheVars, now,
                   arg, grsVars, ret, calls, recorded, sampled, frame,
                   metrics_collector, collector, focus, fs, mount>>

\* _metrics_collector = <the new collector>
GmcAssign(t) ==
    /\ Goto(t, "gmc_assign", "gmc_return")
    /\ metrics_collector' = tmp[t].int
    /\ UNCHANGED <<lock, max_history_size, reqVars, sysVars, cacheVars, now,
                   arg, tmp, grsVars, ret, calls, recorded, sampled, frame,
                   created, collector, focus, others, fs, mount>>

\* return _metrics_collector; a module-level function that called binds the
\* result to its local collector and goes on: record_request_metrics builds
\* its RequestMetrics, record_cache_hit and record_cache_miss call the
\* collector's method
GmcReturn(t) ==
    /\ pc[t] = "gmc_return"
    /\ pc' = [pc EXCEPT ![t] =
          IF frame[t].op = "dispatch" THEN "rrm_metrics"
          ELSE IF frame[t].op = "metrics.record_cache_hit" THEN "rch_with"
          ELSE IF frame[t].op = "metrics.record_cache_miss" THEN "rcm_with"
          ELSE "gmc_exit"]
    /\ collector' = [collector EXCEPT ![t] = metrics_collector]
    /\ ret' = [ret EXCEPT ![t] =
          IF frame[t].op \in ModuleRecorders \cup {"dispatch"} THEN @
          ELSE Returned("get_metrics_collector", metrics_collector)]
    /\ UNCHANGED <<lock, max_history_size, reqVars, sysVars, cacheVars, now,
                   arg, tmp, grsVars, calls, recorded, sampled, frame,
                   metrics_collector, created, focus, others, fs, mount>>

\* the caller has the result
GmcExit(t) ==
    /\ Goto(t, "gmc_exit", "idle")
    /\ tmp' = [tmp EXCEPT ![t] = None]
    /\ ret' = [ret EXCEPT ![t] = NoRet]
    /\ UNCHANGED <<lock, max_history_size, reqVars, sysVars, cacheVars, now,
                   arg, grsVars, calls, recorded, sampled, frame, glVars, fs,
                   mount>>

\* ------------------- module-level record_cache_hit and record_cache_miss

\* lines 441-444: def record_cache_hit(): collector = get_metrics_collector();
\* collector.record_cache_hit()
RecordCacheHit(t) ==
    /\ Call(t, "metrics.record_cache_hit", None, "gmc_check")
    /\ frame' = [frame EXCEPT ![t] =
          [op |-> "metrics.record_cache_hit", locals |-> <<>>]]
    /\ UNCHANGED <<lock, max_history_size, reqVars, sysVars, cacheVars, now,
                   tmp, grsVars, recorded, sampled, glVars, fs, mount>>

\* lines 447-450: def record_cache_miss(): collector = get_metrics_collector();
\* collector.record_cache_miss()
RecordCacheMiss(t) ==
    /\ Call(t, "metrics.record_cache_miss", None, "gmc_check")
    /\ frame' = [frame EXCEPT ![t] =
          [op |-> "metrics.record_cache_miss", locals |-> <<>>]]
    /\ UNCHANGED <<lock, max_history_size, reqVars, sysVars, cacheVars, now,
                   tmp, grsVars, recorded, sampled, glVars, fs, mount>>

\* --------------------------------------------- MetricsMiddleware.dispatch

\* an object's body attribute: missing, None, or bytes of some length
Body(kind, len) == [kind |-> kind, len |-> len]

\* len(x.body) if x.body else 0, guarded by hasattr
BodySize(body) ==
    IF body.kind = "missing" THEN 0
    ELSE IF body.kind = "None" \/ body.len = 0 THEN 0
    ELSE body.len

Requests ==
    { [method |-> "POST", path |-> "/b", body |-> Body("bytes", 2)],
      [method |-> "GET",  path |-> "/a", body |-> Body("missing", 0)] }

\* what call_next produces: a response, or an exception
Responses ==
    { [status_code |-> 200, body |-> Body("bytes", 3)],
      [status_code |-> 500, body |-> Body("None", 0)] }

NoResponse == [status_code |-> 0, body |-> Body("missing", 0)]

\* the locals of dispatch; metric_calls lists the arguments of the
\* record_request_metrics calls it made, warnings counts its
\* logger.warning calls
DispatchFrame(request) ==
    [op |-> "dispatch",
     locals |-> [request |-> request, start_time |-> 0, bytes_received |-> 0,
                 response |-> NoResponse, response_time |-> 0, bytes_sent |-> 0,
                 metric_calls |-> <<>>, warnings |-> 0]]

MwCall(t) ==
    /\ \E request \in Requests :
          /\ Call(t, "dispatch", None, "mw_start")
          /\ frame' = [frame EXCEPT ![t] = DispatchFrame(request)]
    /\ UNCHANGED <<lock, max_history_size, reqVars, sysVars, cacheVars, now,
                   tmp, grsVars, recorded, sampled, glVars, fs, mount>>

\* lines 56-61: start_time = time.time(); bytes_received
MwStart(t) ==
    /\ Goto(t, "mw_start", "mw_call_next")
    /\ LET l == frame[t].locals IN
       frame' = [frame EXCEPT ![t].locals =
          [l EXCEPT !.start_time = now,
                    !.bytes_received = BodySize(l.request.body)]]
    /\ UNCHANGED <<lock, max_history_size, reqVars, sysVars, cacheVars, now,
                   arg, tmp, grsVars, ret, calls, recorded, sampled, glVars, fs,
                   mount>>

\* line 64: response = await call_next(request); an exception of the
\* handler leaves dispatch
MwCallNext(t) ==
    /\ pc[t] = "mw_call_next"
    /\ \/ \E response \in Responses :
             /\ pc' = [pc EXCEPT ![t] = "mw_measure"]
             /\ frame' = [frame EXCEPT ![t].locals.response = response]
             /\ ret' = ret
       \/ /\ pc' = [pc EXCEPT ![t] = "mw_exit"]
          /\ frame' = frame
          /\ ret' = [ret EXCEPT ![t] = Raised("dispatch", "HandlerError")]
    /\ UNCHANGED <<lock, max_history_size, reqVars, sysVars, cacheVars, now,
                   arg, tmp, grsVars, calls, recorded, sampled, glVars, fs,
                   mount>>

\* lines 67-72: response_time = time.time() - start_time; bytes_sent
MwMeasure(t) ==
    /\ Goto(t, "mw_measure", "mw_record")
    /\ LET l == frame[t].locals IN
       frame' = [frame EXCEPT ![t].locals =
          [l EXCEPT !.response_time = now - l.start_time,
                    !.bytes_sent = BodySize(l.response.body)]]
    /\ UNCHANGED <<lock, max_history_size, reqVars, sysVars, cacheVars, now,
                   arg, tmp, grsVars, ret, calls, recorded, sampled, glVars, fs,
                   mount>>

\* the keyword arguments of record_request_metrics at lines 76-83
MetricArgs(l) ==
    [method         |-> l.request.method,
     path           |-> l.request.path,
     status_code    |-> l.response.status_code,
     response_time  |-> l.response_time,
     bytes_sent     |-> l.bytes_sent,
     bytes_received |-> l.bytes_received]

\* lines 75-83: try: record_request_metrics(...), which first calls
\* get_metrics_collector(); the recording may raise
MwRecord_Twice(t) ==
    /\ pc[t] = "mw_record"
    /\ frame' = [frame EXCEPT ![t].locals.metric_calls =
                    Append(Append(@, MetricArgs(frame[t].locals)),
                           MetricArgs(frame[t].locals))]
    /\ pc' = [pc EXCEPT ![t] = "gmc_check"]
    /\ arg' = [arg EXCEPT ![t] = MetricArgs(frame[t].locals)]
    /\ UNCHANGED <<lock, max_history_size, reqVars, sysVars, cacheVars, now,
                   tmp, grsVars, ret, calls, recorded, sampled, glVars, fs,
                   mount>>

MwRecord(t) ==
    /\ pc[t] = "mw_record"
    /\ frame' = [frame EXCEPT ![t].locals.metric_calls =
                    Append(@, MetricArgs(frame[t].locals))]
    /\ \/ /\ pc' = [pc EXCEPT ![t] = "gmc_check"]
          /\ arg' = [arg EXCEPT ![t] = MetricArgs(frame[t].locals)]
       \/ /\ pc' = [pc EXCEPT ![t] = "mw_except"]
          /\ arg' = arg
    /\ UNCHANGED <<lock, max_history_size, reqVars, sysVars, cacheVars, now,
                   tmp, grsVars, ret, calls, recorded, sampled, glVars, fs,
                   mount>>

\* record_request_metrics, lines 430-438: metrics = RequestMetrics(...);
\* collector.record_request(metrics)
RrmMetrics(t) ==
    /\ NestedCall(t, "rrm_metrics", RequestMetrics(arg[t], now), "rr_with")
    /\ UNCHANGED <<lock, max_history_size, reqVars, sysVars, cacheVars, now,
                   tmp, grsVars, calls, recorded, sampled, frame, glVars, fs,
                   mount>>

\* lines 84-88: except Exception as e: logger.warning(...)
MwExcept_Reraise(t) ==
    /\ Goto(t, "mw_except", "mw_exit")
    /\ frame' = [frame EXCEPT ![t].locals.warnings = @ + 1]
    /\ ret' = [ret EXCEPT ![t] = Raised("dispatch", "Exception")]
    /\ UNCHANGED <<lock, max_history_size, reqVars, sysVars, cacheVars, now,
                   arg, tmp, grsVars, calls, recorded, sampled, glVars, fs,
                   mount>>

MwExcept(t) ==
    /\ Goto(t, "mw_except", "mw_return")
    /\ frame' = [frame EXCEPT ![t].locals.warnings = @ + 1]
    /\ UNCHANGED <<lock, max_history_size, reqVars, sysVars, cacheVars, now,
                   arg, tmp, grsVars, ret, calls, recorded, sampled, glVars, fs,
                   mount>>

\* line 90: return response
MwReturn(t) ==
    /\ Goto(t, "mw_return", "mw_exit")
    /\ ret' = [ret EXCEPT ![t] = Returned("dispatch", frame[t].locals.response)]
    /\ UNCHANGED <<lock, max_history_size, reqVars, sysVars, cacheVars, now,
                   arg, tmp, grsVars, calls, recorded, sampled, frame, glVars, fs,
                   mount>>

\* the caller of dispatch has the response, or the exception
MwExit(t) ==
    /\ Goto(t, "mw_exit", "idle")
    /\ frame' = [frame EXCEPT ![t] = NoFrame]
    /\ ret' = [ret EXCEPT ![t] = NoRet]
    /\ arg' = [arg EXCEPT ![t] = None]
    /\ UNCHANGED <<lock, max_history_size, reqVars, sysVars, cacheVars, now,
                   tmp, grsVars, calls, recorded, sampled, glVars, fs,
                   mount>>

\* ---------------------------------------------- export_prometheus_metrics

RECURSIVE Pow2(_)
Pow2(n) == IF n = 0 THEN 1 ELSE 2 * Pow2(n - 1)

RECURSIVE Pow10(_)
Pow10(d) == IF d = 0 THEN 1 ELSE 10 * Pow10(d - 1)

\* The floats of the program are binary doubles: the nearest number of 53
\* significant bits, ties to the even one.  The model keeps the exact
\* rational a / b the double stands for and computes, where a formatted text
\* depends on it, on which side of a / b the double lies.

\* floor(log2(n)), n >= 1
RECURSIVE Log2(_)
Log2(n) == IF n < 2 THEN 0 ELSE 1 + Log2(n \div 2)

\* the least s with a * 2^s >= b
RECURSIVE ShiftsUntil(_, _)
ShiftsUntil(a, b) == IF a >= b THEN 0 ELSE 1 + ShiftsUntil(2 * a, b)

\* the p with 2^p <= a / b < 2^(p+1), a > 0
Exponent(a, b) == IF a >= b THEN Log2(a \div b) ELSE 0 - ShiftsUntil(a, b)

\* n more binary digits of a long division by b < 2^23 that has come to
\* the remainder at.rem, eight digits at a time: the last eight digits of
\* the quotient and the remainder
RECURSIVE LongDivision(_, _, _)
LongDivision(at, n, b) ==
    IF n = 0 THEN at
    ELSE LET k == IF n < 8 THEN n ELSE 8
             shifted == at.rem * Pow2(k)
         IN LongDivision([low |-> (at.low * Pow2(k) + shifted \div b) % 256,
                          rem |-> shifted % b], n - k, b)

\* the double nearest to a / b, a > 0, as m * 2^(p - 52) with 53-bit m: the
\* last eight bits of m, and b * (m - the exact a * 2^(52-p) / b)
Nearest(a, b) ==
    LET p == Exponent(a, b)
        m0 == LongDivision([low |-> (a \div b) % 256, rem |-> a % b], 52 - p, b)
        up == IF 2 * m0.rem < b THEN 0
              ELSE IF 2 * m0.rem > b THEN 1
              ELSE m0.low % 2
    IN [low |-> (m0.low + up) % 256, over |-> up * b - m0.rem, p |-> p]

Sign(n) == IF n > 0 THEN 1 ELSE IF n < 0 THEN 0 - 1 ELSE 0

\* a / b as a double: 1 when the double is above the quotient, -1 when it
\* is below, 0 when the quotient is a double
QuotientError(x) ==
    IF x.num = 0 THEN 0 ELSE Sign(Nearest(x.num, x.den).over)

\* (a / b) * 100 as a double, for x the exact 100 * a / b: the product of
\* the 53-bit m of a / b by 100 has 59 or 60 bits (60 from a / b = 1.28 *
\* 2^p on), of which the last s = 6 or 7 are rounded away
PercentError(x) ==
    IF x.num = 0 THEN 0
    ELSE LET g == GCD(x.num, 100 * x.den)
             a == x.num \div g
             b == (100 * x.den) \div g
             q == Nearest(a, b)
             wide == IF q.p >= 0 THEN 25 * a >= 32 * b * Pow2(q.p)
                     ELSE 25 * a * Pow2(0 - q.p) >= 32 * b
             half == IF wide THEN 64 ELSE 32
             low == (100 * q.low) % (2 * half)
             odd == ((100 * q.low) \div (2 * half)) % 2 = 1
             up == low > half \/ (low = half /\ odd)
             e2 == IF up THEN 2 * half - low ELSE 0 - low
         IN Sign(100 * q.over + e2 * b)

\* round(n / m) to the nearest integer, n >= 0; a tie goes the way of
\* `err` (up when the double is above the tie, down when it is below) and
\* to the even integer when the tie is itself the double
RoundHalfEven(n, m, err) ==
    LET q == n \div m
        r == n % m
    IN IF 2 * r < m THEN q
       ELSE IF 2 * r > m THEN q + 1
       ELSE IF err > 0 THEN q + 1
       ELSE IF err < 0 THEN q
       ELSE IF q % 2 = 0 THEN q ELSE q + 1

\* f"{x:.<d>f}" of the double of a quotient x = a / b: the decimal numeral
\* with d fractional digits nearest to the double, as its digits (scaled =
\* the double * 10^d rounded) and d
Fixed(x, d) ==
    [scaled |-> RoundHalfEven(x.num * Pow10(d), x.den, QuotientError(x)),
     digits |-> d]

\* f"{x:.<d>f}" of the double of a percentage x = (a / b) * 100
FixedPercent(x, d) ==
    [scaled |-> RoundHalfEven(x.num * Pow10(d), x.den, PercentError(x)),
     digits |-> d]

\* one metric family: the words of its three lines, which the text joins
\* with single spaces
Family(name, help, type, value) ==
    << <<"# HELP", name, help>>, <<"# TYPE", name, type>>, <<name, value>> >>

\* the request metrics
RequestLines(request_stats) ==
    Family("olah_http_requests_total", "Total number of HTTP requests",
           "counter", request_stats.total_requests)
    \o Family("olah_http_request_duration_seconds", "Average HTTP request duration",
              "gauge", Fixed(request_stats.avg_response_time, 4))
    \o Family("olah_http_bytes_transferred_total", "Total bytes transferred",
              "counter", request_stats.total_bytes_transferred)

\* the system metrics
SystemLines(system_stats) ==
    Family("olah_system_cpu_percent", "CPU usage percentage",
           "gauge", Fixed(system_stats.cpu_percent, 2))
    \o Family("olah_system_memory_percent", "Memory usage percentage",
              "gauge", Fixed(system_stats.memory_percent, 2))
    \o Family("olah_system_disk_usage_percent", "Disk usage percentage",
              "gauge", FixedPercent(system_stats.disk_usage_percent, 2))

\* the cache metrics
CacheLines_HitRateCounter(cache_stats) ==
    Family("olah_cache_requests_total", "Total cache requests",
           "counter", cache_stats.total_requests)
    \o Family("olah_cache_hits_total", "Total cache hits",
              "counter", cache_stats.cache_hits)
    \o Family("olah_cache_misses_total", "Total cache misses",
              "counter", cache_stats.cache_misses)
    \o Family("olah_cache_hit_rate_percent", "Cache hit rate percentage",
              "counter", FixedPercent(cache_stats.hit_rate_percent, 2))

CacheLines(cache_stats) ==
    Family("olah_cache_requests_total", "Total cache requests",
           "counter", cache_stats.total_requests)
    \o Family("olah_cache_hits_total", "Total cache hits",
              "counter", cache_stats.cache_hits)
    \o Family("olah_cache_misses_total", "Total cache misses",
              "counter", cache_stats.cache_misses)
    \o Family("olah_cache_hit_rate_percent", "Cache hit rate percentage",
              "gauge", FixedPercent(cache_stats.hit_rate_percent, 2))

\* get_request_stats(60): the last hour
ExportWindow == 60

\* the locals of export_prometheus_metrics
ExportFrame ==
    [op |-> "export_prometheus_metrics",
     locals |-> [lines |-> <<>>, request_stats |-> None, system_stats |-> None,
                 cache_stats |-> None]]

\* lines = []
ExpCall(t) ==
    /\ Call(t, "export_prometheus_metrics", None, "exp_request")
    /\ frame' = [frame EXCEPT ![t] = ExportFrame]
    /\ UNCHANGED <<lock, max_history_size, reqVars, sysVars, cacheVars, now,
                   tmp, grsVars, recorded, sampled, glVars, fs, mount>>

\* request_stats = self.get_request_stats(60)
ExpRequest(t) ==
    /\ NestedCall(t, "exp_request", AnInt(ExportWindow), "grs_cutoff")
    /\ UNCHANGED <<lock, max_history_size, reqVars, sysVars, cacheVars, now,
                   tmp, grsVars, calls, recorded, sampled, frame, glVars, fs,
                   mount>>

\* the request lines; system_stats = self.get_system_stats()
ExpSystem(t) ==
    /\ NestedCall(t, "exp_system", None, "gss_with")
    /\ frame' = [frame EXCEPT ![t].locals.lines =
                    @ \o RequestLines(frame[t].locals.request_stats)]
    /\ UNCHANGED <<lock, max_history_size, reqVars, sysVars, cacheVars, now,
                   tmp, grsVars, calls, recorded, sampled, glVars, fs,
                   mount>>

\* the system lines; cache_stats = self.get_cache_stats()
ExpCache(t) ==
    /\ NestedCall(t, "exp_cache", None, "gcs_with")
    /\ frame' = [frame EXCEPT ![t].locals.lines =
                    @ \o SystemLines(frame[t].locals.system_stats)]
    /\ UNCHANGED <<lock, max_history_size, reqVars, sysVars, cacheVars, now,
                   tmp, grsVars, calls, recorded, sampled, glVars, fs,
                   mount>>

\* the cache lines; return "\n".join(lines)
ExpJoin(t) ==
    /\ Goto(t, "exp_join", "exp_exit")
    /\ LET lines == frame[t].locals.lines \o CacheLines(frame[t].locals.cache_stats)
       IN /\ frame' = [frame EXCEPT ![t].locals.lines = lines]
          /\ ret' = [ret EXCEPT ![t] = Returned("export_prometheus_metrics", lines)]
    /\ UNCHANGED <<lock, max_history_size, reqVars, sysVars, cacheVars, now,
                   arg, tmp, grsVars, calls, recorded, sampled, glVars, fs,
                   mount>>

\* the caller has the text
ExpExit(t) ==
    /\ Goto(t, "exp_exit", "idle")
    /\ frame' = [frame EXCEPT ![t] = NoFrame]
    /\ ret' = [ret EXCEPT ![t] = NoRet]
    /\ UNCHANGED <<lock, max_history_size, reqVars, sysVars, cacheVars, now,
                   arg, tmp, grsVars, calls, recorded, sampled, glVars, fs,
                   mount>>

\* --------------------------------------------------------- text and time

\* a text is the tuple of the code points of its characters
Slash == <<47>>
Dot == <<46>>

\* the simple lower-case mappings of the interpreter's Unicode tables: the
\* code points first, first + step, ..., last map to themselves + delta
\* (<<first, last, step, delta>>)
LowerRanges ==
    <<
    <<65, 90, 1, 32>>, <<192, 214, 1, 32>>, <<216, 222, 1, 32>>,
    <<256, 302, 2, 1>>, <<306, 310, 2, 1>>, <<313, 327, 2, 1>>,
    <<330, 374, 2, 1>>, <<376, 376, 1, -121>>, <<377, 381, 2, 1>>,
    <<385, 385, 1, 210>>, <<386, 388, 2, 1>>, <<390, 390, 1, 206>>,
    <<391, 391, 1, 1>>, <<393, 394, 1, 205>>, <<395, 395, 1, 1>>,
    <<398, 398, 1, 79>>, <<399, 399, 1, 202>>, <<400, 400, 1, 203>>,
    <<401, 401, 1, 1>>, <<403, 403, 1, 205>>, <<404, 404, 1, 207>>,
    <<406, 406, 1, 211>>, <<407, 407, 1, 209>>, <<408, 408, 1, 1>>,
    <<412, 412, 1, 211>>, <<413, 413, 1, 213>>, <<415, 415, 1, 214>>,
    <<416, 420, 2, 1>>, <<422, 422, 1, 218>>, <<423, 423, 1, 1>>,
    <<425, 425, 1, 218>>, <<428, 428, 1, 1>>, <<430, 430, 1, 218>>,
    <<431, 431, 1, 1>>, <<433, 434, 1, 217>>, <<435, 437, 2, 1>>,
    <<439, 439, 1, 219>>, <<440, 440, 1, 1>>, <<444, 444, 1, 1>>,
    <<452, 452, 1, 2>>, <<453, 453, 1, 1>>, <<455, 455, 1, 2>>,
    <<456, 456, 1, 1>>, <<458, 458, 1, 2>>, <<459, 475, 2, 1>>,
    <<478, 494, 2, 1>>, <<497, 497, 1, 2>>, <<498, 500, 2, 1>>,
    <<502, 502, 1, -97>>, <<503, 503, 1, -56>>, <<504, 542, 2, 1>>,
    <<544, 544, 1, -130>>, <<546, 562, 2, 1>>, <<570, 570, 1, 10795>>,
    <<571, 571, 1, 1>>, <<573, 573, 1, -163>>, <<574, 574, 1, 10792>>,
    <<577, 577, 1, 1>>, <<579, 579, 1, -195>>, <<580, 580, 1, 69>>,
    <<581, 581, 1, 71>>, <<582, 590, 2, 1>>, <<880, 882, 2, 1>>,
    <<886, 886, 1, 1>>, <<895, 895, 1, 116>>, <<902, 902, 1, 38>>,
    <<904, 906, 1, 37>>, <<908, 908, 1, 64>>, <<910, 911, 1, 63>>,
    <<913, 929, 1, 32>>, <<931, 939, 1, 32>>, <<975, 975, 1, 8>>,
    <<984, 1006, 2, 1>>, <<1012, 1012, 1, -60>>, <<1015, 1015, 1, 1>>,
    <<1017, 1017, 1, -7>>, <<1018, 1018, 1, 1>>, <<1021, 1023, 1, -130>>,
    <<1024, 1039, 1, 80>>, <<1040, 1071, 1, 32>>, <<1120, 1152, 2, 1>>,
    <<1162, 1214, 2, 1>>, <<1216, 1216, 1, 15>>, <<1217, 1229, 2, 1>>,
    <<1232, 1326, 2, 1>>, <<1329, 1366, 1, 48>>, <<4256, 4293, 1, 7264>>,
    <<4295, 4295, 1, 7264>>, <<4301, 4301, 1, 7264>>,
    <<5024, 5103, 1, 38864>>, <<5104, 5109, 1, 8>>, <<7312, 7354, 1, -3008>>,
    <<7357, 7359, 1, -3008>>, <<7680, 7828, 2, 1>>, <<7838, 7838, 1, -7615>>,
    <<7840, 7934, 2, 1>>, <<7944, 7951, 1, -8>>, <<7960, 7965, 1, -8>>,
    <<7976, 7983, 1, -8>>, <<7992, 7999, 1, -8>>, <<8008, 8013, 1, -8>>,
    <<8025, 8031, 2, -8>>, <<8040, 8047, 1, -8>>, <<8072, 8079, 1, -8>>,
    <<8088, 8095, 1, -8>>, <<8104, 8111, 1, -8>>, <<8120, 8121, 1, -8>>,
    <<8122, 8123, 1, -74>>, <<8124, 8124, 1, -9>>, <<8136, 8139, 1, -86>>,
    <<8140, 8140, 1, -9>>, <<8152, 8153, 1, -8>>, <<8154, 8155, 1, -100>>,
    <<8168, 8169, 1, -8>>, <<8170, 8171, 1, -112>>, <<8172, 8172, 1, -7>>,
    <<8184, 8185, 1, -128>>, <<8186, 8187, 1, -126>>, <<8188, 8188, 1, -9>>,
    <<8486, 8486, 1, -7517>>, <<8490, 8490, 1, -8383>>,
    <<8491, 8491, 1, -8262>>, <<8498, 8498, 1, 28>>, <<8544, 8559, 1, 16>>,
    <<8579, 8579, 1, 1>>, <<9398, 9423, 1, 26>>, <<11264, 11311, 1, 48>>,
    <<11360, 11360, 1, 1>>, <<11362, 11362, 1, -10743>>,
    <<11363, 11363, 1, -3814>>, <<11364, 11364, 1, -10727>>,
    <<11367, 11371, 2, 1>>, <<11373, 11373, 1, -10780>>,
    <<11374, 11374, 1, -10749>>, <<11375, 11375, 1, -10783>>,
    <<11376, 11376, 1, -10782>>, <<11378, 11378, 1, 1>>,
    <<11381, 11381, 1, 1>>, <<11390, 11391, 1, -10815>>,
    <<11392, 11490, 2, 1>>, <<11499, 11501, 2, 1>>, <<11506, 11506, 1, 1>>,
    <<42560, 42604, 2, 1>>, <<42624, 42650, 2, 1>>, <<42786, 42798, 2, 1>>,
    <<42802, 42862, 2, 1>>, <<42873, 42875, 2, 1>>,
    <<42877, 42877, 1, -35332>>, <<42878, 42886, 2, 1>>,
    <<42891, 42891, 1, 1>>, <<42893, 42893, 1, -42280>>,
    <<42896, 42898, 2, 1>>, <<42902, 42920, 2, 1>>,
    <<42922, 42922, 1, -42308>>, <<42923, 42923, 1, -42319>>,
    <<42924, 42924, 1, -42315>>, <<42925, 42925, 1, -42305>>,
    <<42926, 42926, 1, -42308>>, <<42928, 42928, 1, -42258>>,
    <<42929, 42929, 1, -42282>>, <<42930, 42930, 1, -42261>>,
    <<42931, 42931, 1, 928>>, <<42932, 42946, 2, 1>>,
    <<42948, 42948, 1, -48>>, <<42949, 42949, 1, -42307>>,
    <<42950, 42950, 1, -35384>>, <<42951, 42953, 2, 1>>,
    <<42960, 42960, 1, 1>>, <<42966, 42968, 2, 1>>, <<42997, 42997, 1, 1>>,
    <<65313, 65338, 1, 32>>, <<66560, 66599, 1, 40>>,
    <<66736, 66771, 1, 40>>, <<66928, 66964, 2, 39>>,
    <<66929, 66938, 1, 39>>, <<66941, 66954, 1, 39>>,
    <<66957, 66962, 1, 39>>, <<66965, 66965, 1, 39>>,
    <<68736, 68786, 1, 64>>, <<71840, 71871, 1, 32>>,
    <<93760, 93791, 1, 32>>, <<125184, 125217, 1, 34>>
    >>

\* the cased code points that are not case-ignorable (<<first, last>>)
CasedRanges ==
    <<
    <<65, 90>>, <<97, 122>>, <<170, 170>>, <<181, 181>>, <<186, 186>>,
    <<192, 214>>, <<216, 246>>, <<248, 442>>, <<444, 447>>, <<452, 659>>,
    <<661, 687>>, <<880, 883>>, <<886, 887>>, <<891, 893>>, <<895, 895>>,
    <<902, 902>>, <<904, 906>>, <<908, 908>>, <<910, 929>>, <<931, 1013>>,
    <<1015, 1153>>, <<1162, 1327>>, <<1329, 1366>>, <<1376, 1416>>,
    <<4256, 4293>>, <<4295, 4295>>, <<4301, 4301>>, <<4304, 4346>>,
    <<4349, 4351>>, <<5024, 5109>>, <<5112, 5117>>, <<7296, 7304>>,
    <<7312, 7354>>, <<7357, 7359>>, <<7424, 7467>>, <<7531, 7543>>,
    <<7545, 7578>>, <<7680, 7957>>, <<7960, 7965>>, <<7968, 8005>>,
    <<8008, 8013>>, <<8016, 8023>>, <<8025, 8025>>, <<8027, 8027>>,
    <<8029, 8029>>, <<8031, 8061>>, <<8064, 8116>>, <<8118, 8124>>,
    <<8126, 8126>>, <<8130, 8132>>, <<8134, 8140>>, <<8144, 8147>>,
    <<8150, 8155>>, <<8160, 8172>>, <<8178, 8180>>, <<8182, 8188>>,
    <<8450, 8450>>, <<8455, 8455>>, <<8458, 8467>>, <<8469, 8469>>,
    <<8473, 8477>>, <<8484, 8484>>, <<8486, 8486>>, <<8488, 8488>>,
    <<8490, 8493>>, <<8495, 8500>>, <<8505, 8505>>, <<8508, 8511>>,
    <<8517, 8521>>, <<8526, 8526>>, <<8544, 8575>>, <<8579, 8580>>,
    <<9398, 9449>>, <<11264, 11387>>, <<11390, 11492>>, <<11499, 11502>>,
    <<11506, 11507>>, <<11520, 11557>>, <<11559, 11559>>, <<11565, 11565>>,
    <<42560, 42605>>, <<42624, 42651>>, <<42786, 42863>>, <<42865, 42887>>,
    <<42891, 42894>>, <<42896, 42954>>, <<42960, 42961>>, <<42963, 42963>>,
    <<42965, 42969>>, <<42997, 42998>>, <<43002, 43002>>, <<43824, 43866>>,
    <<43872, 43880>>, <<43888, 43967>>, <<64256, 64262>>, <<64275, 64279>>,
    <<65313, 65338>>, <<65345, 65370>>, <<66560, 66639>>, <<66736, 66771>>,
    <<66776, 66811>>, <<66928, 66938>>, <<66940, 66954>>, <<66956, 66962>>,
    <<66964, 66965>>, <<66967, 66977>>, <<66979, 66993>>, <<66995, 67001>>,
    <<67003, 67004>>, <<68736, 68786>>, <<68800, 68850>>, <<71840, 71903>>,
    <<93760, 93823>>, <<119808, 119892>>, <<119894, 119964>>,
    <<119966, 119967>>, <<119970, 119970>>, <<119973, 119974>>,
    <<119977, 119980>>, <<119982, 119993>>, <<119995, 119995>>,
    <<119997, 120003>>, <<120005, 120069>>, <<120071, 120074>>,
    <<120077, 120084>>, <<120086, 120092>>, <<120094, 120121>>,
    <<120123, 120126>>, <<120128, 120132>>, <<120134, 120134>>,
    <<120138, 120144>>, <<120146, 120485>>, <<120488, 120512>>,
    <<120514, 120538>>, <<120540, 120570>>, <<120572, 120596>>,
    <<120598, 120628>>, <<120630, 120654>>, <<120656, 120686>>,
    <<120688, 120712>>, <<120714, 120744>>, <<120746, 120770>>,
    <<120772, 120779>>, <<122624, 122633>>, <<122635, 122654>>,
    <<125184, 125251>>, <<127280, 127305>>, <<127312, 127337>>,
    <<127344, 127369>>
    >>

\* the case-ignorable code points (<<first, last>>)
CaseIgnorableRanges ==
    <<
    <<39, 39>>, <<46, 46>>, <<58, 58>>, <<94, 94>>, <<96, 96>>, <<168, 168>>,
    <<173, 173>>, <<175, 175>>, <<180, 180>>, <<183, 184>>, <<688, 879>>,
    <<884, 885>>, <<890, 890>>, <<900, 901>>, <<903, 903>>, <<1155, 1161>>,
    <<1369, 1369>>, <<1375, 1375>>, <<1425, 1469>>, <<1471, 1471>>,
    <<1473, 1474>>, <<1476, 1477>>, <<1479, 1479>>, <<1524, 1524>>,
    <<1536, 1541>>, <<1552, 1562>>, <<1564, 1564>>, <<1600, 1600>>,
    <<1611, 1631>>, <<1648, 1648>>, <<1750, 1757>>, <<1759, 1768>>,
    <<1770, 1773>>, <<1807, 1807>>, <<1809, 1809>>, <<1840, 1866>>,
    <<1958, 1968>>, <<2027, 2037>>, <<2042, 2042>>, <<2045, 2045>>,
    <<2070, 2093>>, <<2137, 2139>>, <<2184, 2184>>, <<2192, 2193>>,
    <<2200, 2207>>, <<2249, 2306>>, <<2362, 2362>>, <<2364, 2364>>,
    <<2369, 2376>>, <<2381, 2381>>, <<2385, 2391>>, <<2402, 2403>>,
    <<2417, 2417>>, <<2433, 2433>>, <<2492, 2492>>, <<2497, 2500>>,
    <<2509, 2509>>, <<2530, 2531>>, <<2558, 2558>>, <<2561, 2562>>,
    <<2620, 2620>>, <<2625, 2626>>, <<2631, 2632>>, <<2635, 2637>>,
    <<2641, 2641>>, <<2672, 2673>>, <<2677, 2677>>, <<2689, 2690>>,
    <<2748, 2748>>, <<2753, 2757>>, <<2759, 2760>>, <<2765, 2765>>,
    <<2786, 2787>>, <<2810, 2815>>, <<2817, 2817>>, <<2876, 2876>>,
    <<2879, 2879>>, <<2881, 2884>>, <<2893, 2893>>, <<2901, 2902>>,
    <<2914, 2915>>, <<2946, 2946>>, <<3008, 3008>>, <<3021, 3021>>,
    <<3072, 3072>>, <<3076, 3076>>, <<3132, 3132>>, <<3134, 3136>>,
    <<3142, 3144>>, <<3146, 3149>>, <<3157, 3158>>, <<3170, 3171>>,
    <<3201, 3201>>, <<3260, 3260>>, <<3263, 3263>>, <<3270, 3270>>,
    <<3276, 3277>>, <<3298, 3299>>, <<3328, 3329>>, <<3387, 3388>>,
    <<3393, 3396>>, <<3405, 3405>>, <<3426, 3427>>, <<3457, 3457>>,
    <<3530, 3530>>, <<3538, 3540>>, <<3542, 3542>>, <<3633, 3633>>,
    <<3636, 3642>>, <<3654, 3662>>, <<3761, 3761>>, <<3764, 3772>>,
    <<3782, 3782>>, <<3784, 3789>>, <<3864, 3865>>, <<3893, 3893>>,
    <<3895, 3895>>, <<3897, 3897>>, <<3953, 3966>>, <<3968, 3972>>,
    <<3974, 3975>>, <<3981, 3991>>, <<3993, 4028>>, <<4038, 4038>>,
    <<4141, 4144>>, <<4146, 4151>>, <<4153, 4154>>, <<4157, 4158>>,
    <<4184, 4185>>, <<4190, 4192>>, <<4209, 4212>>, <<4226, 4226>>,
    <<4229, 4230>>, <<4237, 4237>>, <<4253, 4253>>, <<4348, 4348>>,
    <<4957, 4959>>, <<5906, 5908>>, <<5938, 5939>>, <<5970, 5971>>,
    <<6002, 6003>>, <<6068, 6069>>, <<6071, 6077>>, <<6086, 6086>>,
    <<6089, 6099>>, <<6103, 6103>>, <<6109, 6109>>, <<6155, 6159>>,
    <<6211, 6211>>, <<6277, 6278>>, <<6313, 6313>>, <<6432, 6434>>,
    <<6439, 6440>>, <<6450, 6450>>, <<6457, 6459>>, <<6679, 6680>>,
    <<6683, 6683>>, <<6742, 6742>>, <<6744, 6750>>, <<6752, 6752>>,
    <<6754, 6754>>, <<6757, 6764>>, <<6771, 6780>>, <<6783, 6783>>,
    <<6823, 6823>>, <<6832, 6862>>, <<6912, 6915>>, <<6964, 6964>>,
    <<6966, 6970>>, <<6972, 6972>>, <<6978, 6978>>, <<7019, 7027>>,
    <<7040, 7041>>, <<7074, 7077>>, <<7080, 7081>>, <<7083, 7085>>,
    <<7142, 7142>>, <<7144, 7145>>, <<7149, 7149>>, <<7151, 7153>>,
    <<7212, 7219>>, <<7222, 7223>>, <<7288, 7293>>, <<7376, 7378>>,
    <<7380, 7392>>, <<7394, 7400>>, <<7405, 7405>>, <<7412, 7412>>,
    <<7416, 7417>>, <<7468, 7530>>, <<7544, 7544>>, <<7579, 7679>>,
    <<8125, 8125>>, <<8127, 8129>>, <<8141, 8143>>, <<8157, 8159>>,
    <<8173, 8175>>, <<8189, 8190>>, <<8203, 8207>>, <<8216, 8217>>,
    <<8228, 8228>>, <<8231, 8231>>, <<8234, 8238>>, <<8288, 8292>>,
    <<8294, 8303>>, <<8305, 8305>>, <<8319, 8319>>, <<8336, 8348>>,
    <<8400, 8432>>, <<11388, 11389>>, <<11503, 11505>>, <<11631, 11631>>,
    <<11647, 11647>>, <<11744, 11775>>, <<11823, 11823>>, <<12293, 12293>>,
    <<12330, 12333>>, <<12337, 12341>>, <<12347, 12347>>, <<12441, 12446>>,
    <<12540, 12542>>, <<40981, 40981>>, <<42232, 42237>>, <<42508, 42508>>,
    <<42607, 42610>>, <<42612, 42621>>, <<42623, 42623>>, <<42652, 42655>>,
    <<42736, 42737>>, <<42752, 42785>>, <<42864, 42864>>, <<42888, 42890>>,
    <<42994, 42996>>, <<43000, 43001>>, <<43010, 43010>>, <<43014, 43014>>,
    <<43019, 43019>>, <<43045, 43046>>, <<43052, 43052>>, <<43204, 43205>>,
    <<43232, 43249>>, <<43263, 43263>>, <<43302, 43309>>, <<43335, 43345>>,
    <<43392, 43394>>, <<43443, 43443>>, <<43446, 43449>>, <<43452, 43453>>,
    <<43471, 43471>>, <<43493, 43494>>, <<43561, 43566>>, <<43569, 43570>>,
    <<43573, 43574>>, <<43587, 43587>>, <<43596, 43596>>, <<43632, 43632>>,
    <<43644, 43644>>, <<43696, 43696>>, <<43698, 43700>>, <<43703, 43704>>,
    <<43710, 43711>>, <<43713, 43713>>, <<43741, 43741>>, <<43756, 43757>>,
    <<43763, 43764>>, <<43766, 43766>>, <<43867, 43871>>, <<43881, 43883>>,
    <<44005, 44005>>, <<44008, 44008>>, <<44013, 44013>>, <<64286, 64286>>,
    <<64434, 64450>>, <<65024, 65039>>, <<65043, 65043>>, <<65056, 65071>>,
    <<65106, 65106>>, <<65109, 65109>>, <<65279, 65279>>, <<65287, 65287>>,
    <<65294, 65294>>, <<65306, 65306>>, <<65342, 65342>>, <<65344, 65344>>,
    <<65392, 65392>>, <<65438, 65439>>, <<65507, 65507>>, <<65529, 65531>>,
    <<66045, 66045>>, <<66272, 66272>>, <<66422, 66426>>, <<67456, 67461>>,
    <<67463, 67504>>, <<67506, 67514>>, <<68097, 68099>>, <<68101, 68102>>,
    <<68108, 68111>>, <<68152, 68154>>, <<68159, 68159>>, <<68325, 68326>>,
    <<68900, 68903>>, <<69291, 69292>>, <<69446, 69456>>, <<69506, 69509>>,
    <<69633, 69633>>, <<69688, 69702>>, <<69744, 69744>>, <<69747, 69748>>,
    <<69759, 69761>>, <<69811, 69814>>, <<69817, 69818>>, <<69821, 69821>>,
    <<69826, 69826>>, <<69837, 69837>>, <<69888, 69890>>, <<69927, 69931>>,
    <<69933, 69940>>, <<70003, 70003>>, <<70016, 70017>>, <<70070, 70078>>,
    <<70089, 70092>>, <<70095, 70095>>, <<70191, 70193>>, <<70196, 70196>>,
    <<70198, 70199>>, <<70206, 70206>>, <<70367, 70367>>, <<70371, 70378>>,
    <<70400, 70401>>, <<70459, 70460>>, <<70464, 70464>>, <<70502, 70508>>,
    <<70512, 70516>>, <<70712, 70719>>, <<70722, 70724>>, <<70726, 70726>>,
    <<70750, 70750>>, <<70835, 70840>>, <<70842, 70842>>, <<70847, 70848>>,
    <<70850, 70851>>, <<71090, 71093>>, <<71100, 71101>>, <<71103, 71104>>,
    <<71132, 71133>>, <<71219, 71226>>, <<71229, 71229>>, <<71231, 71232>>,
    <<71339, 71339>>, <<71341, 71341>>, <<71344, 71349>>, <<71351, 71351>>,
    <<71453, 71455>>, <<71458, 71461>>, <<71463, 71467>>, <<71727, 71735>>,
    <<71737, 71738>>, <<71995, 71996>>, <<71998, 71998>>, <<72003, 72003>>,
    <<72148, 72151>>, <<72154, 72155>>, <<72160, 72160>>, <<72193, 72202>>,
    <<72243, 72248>>, <<72251, 72254>>, <<72263, 72263>>, <<72273, 72278>>,
    <<72281, 72283>>, <<72330, 72342>>, <<72344, 72345>>, <<72752, 72758>>,
    <<72760, 72765>>, <<72767, 72767>>, <<72850, 72871>>, <<72874, 72880>>,
    <<72882, 72883>>, <<72885, 72886>>, <<73009, 73014>>, <<73018, 73018>>,
    <<73020, 73021>>, <<73023, 73029>>, <<73031, 73031>>, <<73104, 73105>>,
    <<73109, 73109>>, <<73111, 73111>>, <<73459, 73460>>, <<78896, 78904>>,
    <<92912, 92916>>, <<92976, 92982>>, <<92992, 92995>>, <<94031, 94031>>,
    <<94095, 94111>>, <<94176, 94177>>, <<94179, 94180>>, <<110576, 110579>>,
    <<110581, 110587>>, <<110589, 110590>>, <<113821, 113822>>,
    <<113824, 113827>>, <<118528, 118573>>, <<118576, 118598>>,
    <<119143, 119145>>, <<119155, 119170>>, <<119173, 119179>>,
    <<119210, 119213>>, <<119362, 119364>>, <<121344, 121398>>,
    <<121403, 121452>>, <<121461, 121461>>, <<121476, 121476>>,
    <<121499, 121503>>, <<121505, 121519>>, <<122880, 122886>>,
    <<122888, 122904>>, <<122907, 122913>>, <<122915, 122916>>,
    <<122918, 122922>>, <<123184, 123197>>, <<123566, 123566>>,
    <<123628, 123631>>, <<125136, 125142>>, <<125252, 125259>>,
    <<127995, 127999>>, <<917505, 917505>>, <<917536, 917631>>,
    <<917760, 917999>>
    >>

\* a code point is in one of the <<first, last>> ranges
InRanges(c, ranges) ==
    \E i \in 1..Len(ranges) : ranges[i][1] <= c /\ c <= ranges[i][2]

\* the code point c maps to under the simple mappings
LowerChar(c) ==
    IF c < 128 THEN (IF c >= 65 /\ c <= 90 THEN c + 32 ELSE c)
    ELSE LET hit == {i \in 1..Len(LowerRanges) :
                        /\ LowerRanges[i][1] <= c /\ c <= LowerRanges[i][2]
                        /\ (c - LowerRanges[i][1]) % LowerRanges[i][3] = 0}
         IN IF hit = {} THEN c
            ELSE c + LowerRanges[CHOOSE i \in hit : TRUE][4]

\* capital sigma is in the final position of a word: a cased code point
\* before it and none after it, case-ignorable code points skipped
FinalSigma(str, i) ==
    LET before == {j \in 1..(i - 1) : ~InRanges(str[j], CaseIgnorableRanges)}
        after == {j \in (i + 1)..Len(str) : ~InRanges(str[j], CaseIgnorableRanges)}
        Max(S) == CHOOSE j \in S : \A k \in S : k <= j
        Min(S) == CHOOSE j \in S : \A k \in S : j <= k
    IN /\ before # {}
       /\ InRanges(str[Max(before)], CasedRanges)
       /\ after # {} => ~InRanges(str[Min(after)], CasedRanges)

\* what str.lower() puts for the code point at position i: capital sigma
\* by its position, capital I with dot above as i and a combining dot, the
\* simple mapping otherwise
LowerAt(str, i) ==
    IF str[i] = 931 THEN (IF FinalSigma(str, i) THEN <<962>> ELSE <<963>>)
    ELSE IF str[i] = 304 THEN <<105, 775>>
    ELSE <<LowerChar(str[i])>>

\* the pieces at positions i to j of a sequence of sequences, joined (by
\* halves)
RECURSIVE Concat(_, _, _)
Concat(pieces, i, j) ==
    IF i > j THEN <<>>
    ELSE IF i = j THEN pieces[i]
    ELSE Concat(pieces, i, (i + j) \div 2) \o Concat(pieces, (i + j) \div 2 + 1, j)

\* str.lower()
Lower(str) == Concat([i \in 1..Len(str) |-> LowerAt(str, i)], 1, Len(str))

\* needle in hay: needle is a run of consecutive characters of hay
Contains(hay, needle) ==
    \E i \in 0..(Len(hay) - Len(needle)) :
        \A j \in 1..Len(needle) : hay[i + j] = needle[j]

\* a < b for Python strings: by code point at the first difference, a proper
\* prefix being the smaller
StrLess(a, b) ==
    \E i \in 1..Len(b) :
        /\ i <= Len(a) + 1
        /\ \A j \in 1..(i - 1) : a[j] = b[j]
        /\ IF i = Len(a) + 1 THEN TRUE ELSE a[i] < b[i]

\* the decimal digits of n, zero-padded to width w, as characters
RECURSIVE Digits(_, _)
Digits(n, w) ==
    IF w = 0 THEN <<>> ELSE Append(Digits(n \div 10, w - 1), 48 + (n % 10))

\* seconds in a day
Day == 86400

\* a file time is seconds and microseconds since the epoch
Time(s, us) == [s |-> s, us |-> us]

\* the civil date of the day `days` days after 1970-01-01, in the Gregorian
\* calendar (the eras of 400 years begin on a 1st of March)
CivilDate(days) ==
    LET z == days + 719468
        era == z \div 146097
        doe == z % 146097
        yoe == (doe - doe \div 1460 + doe \div 36524 - doe \div 146096) \div 365
        doy == doe - (365 * yoe + yoe \div 4 - yoe \div 100)
        mp == (5 * doy + 2) \div 153
        month == IF mp < 10 THEN mp + 3 ELSE mp - 9
    IN [year  |-> yoe + era * 400 + (IF month <= 2 THEN 1 ELSE 0),
        month |-> month,
        day   |-> doy - (153 * mp + 2) \div 5 + 1]

\* datetime.fromtimestamp(ts).isoformat() where the local time is UTC:
\* 'YYYY-MM-DDTHH:MM:SS', then '.' and six digits of microseconds unless
\* they are zero
IsoFormat(ts) ==
    LET date == CivilDate(ts.s \div Day)
        clock == ts.s % Day
    IN Digits(date.year, 4) \o <<45>> \o Digits(date.month, 2) \o <<45>>
       \o Digits(date.day, 2) \o <<84>>
       \o Digits(clock \div 3600, 2) \o <<58>>
       \o Digits((clock % 3600) \div 60, 2) \o <<58>>
       \o Digits(clock % 60, 2)
       \o (IF ts.us = 0 THEN <<>> ELSE Dot \o Digits(ts.us, 6))

\* a - b < d and a - b > d for datetimes a, b and a timedelta of d seconds
AgeLess(a, b, d) ==
    \/ a.s - b.s < d
    \/ a.s - b.s = d /\ a.us < b.us

AgeMore(a, b, d) ==
    \/ a.s - b.s > d
    \/ a.s - b.s = d /\ a.us > b.us

\* --------------------------------------------------------- the cache tree

\* names of the directories and files of the tree
api == <<97, 112, 105>>
models == <<109, 111, 100, 101, 108, 115>>
datasets == <<100, 97, 116, 97, 115, 101, 116, 115>>
spaces == <<115, 112, 97, 99, 101, 115>>
files == <<102, 105, 108, 101, 115>>
lfs == <<108, 102, 115>>

\* 'repos' and '..'
repos_name == <<114, 101, 112, 111, 115>>
DotDot == <<46, 46>>

\* a path is the tuple of its parts, as pathlib keeps them: the root '/'
\* first, then the names
Root == <<Slash>>

\* self.repos_path = Path(repos_path), of a cache kept at '/repos'
repos_path == <<Slash, repos_name>>

\* self.cache_dirs, in the order of the dict
CategoryOrder == <<"models", "datasets", "spaces", "files", "lfs">>

Categories == {CategoryOrder[i] : i \in 1..Len(CategoryOrder)}

cache_dirs ==
    [c \in Categories |->
        IF c = "models" THEN repos_path \o <<api, models>>
        ELSE IF c = "datasets" THEN repos_path \o <<api, datasets>>
        ELSE IF c = "spaces" THEN repos_path \o <<api, spaces>>
        ELSE IF c = "files" THEN repos_path \o <<files>>
        ELSE repos_path \o <<lfs>>]

\* the times of an entry nobody has touched since it was made
Epoch == Time(0, 0)

\* one entry of the file system: its path, what stat() gives for it (the
\* change time is that of the last modification unless the entry was
\* changed otherwise), the bytes of a file, and whether the process may
\* open it (a file) or list and search it (a directory)
Entry(path, kind, size, atime, mtime, data) ==
    [path |-> path, kind |-> kind, size |-> size, atime |-> atime,
     mtime |-> mtime, ctime |-> mtime, data |-> data, readable |-> TRUE]

\* the file system in which repos_path does not exist: the directory '/'
\* alone
NoTree == <<Entry(Root, "dir", 0, Epoch, Epoch, <<>>)>>

\* path p lies strictly below directory d
IsUnder(p, d) == Len(p) > Len(d) /\ SubSeq(p, 1, Len(d)) = d

\* the directory a path lies in, and its last name
Parent(p) == SubSeq(p, 1, Len(p) - 1)

NameOf(p) == p[Len(p)]

\* the clock of the host when the collector was built, 40 days after the
\* oldest entries were made; `now` counts the minutes since
ClockStart == 40 * Day

\* datetime.now(), and the time the operating system stamps on what is
\* listed, read or written
DatetimeNow == Time(ClockStart + now * 60, 0)

\* the tree has an entry, a directory, a file at the very path p
Has(tree, p) == \E i \in 1..Len(tree) : tree[i].path = p

HasDir(tree, p) ==
    \E i \in 1..Len(tree) : tree[i].path = p /\ tree[i].kind = "dir"

HasFile(tree, p) ==
    \E i \in 1..Len(tree) : tree[i].path = p /\ tree[i].kind = "file"

\* the directories the process may neither list nor search (chmod 000)
Unreadable(tree) ==
    {tree[i].path : i \in {k \in 1..Len(tree) :
                              tree[k].kind = "dir" /\ ~tree[k].readable}}

\* what a call on a path gives: a value, or the exception it raises
Answer(v) == [exc |-> "", value |-> v]
Failure(e) == [exc |-> e]

\* the entry the operating system finds when it follows the names `parts`
\* from the directory at cur, or the error of the lookup: every name is
\* looked up in a directory, which the process must be allowed to search;
\* '..' is the directory above, and the root itself at the root
RECURSIVE Walk(_, _, _)
Walk(tree, cur, parts) ==
    IF parts = <<>> THEN Answer(cur)
    ELSE IF HasFile(tree, cur) THEN Failure("NotADirectoryError")
    ELSE IF cur \in Unreadable(tree) THEN Failure("PermissionError")
    ELSE LET next == IF Head(parts) # DotDot THEN Append(cur, Head(parts))
                     ELSE IF cur = Root THEN Root
                     ELSE Parent(cur)
         IN IF Has(tree, next) THEN Walk(tree, next, Tail(parts))
            ELSE Failure("FileNotFoundError")

\* the lookup of the absolute path p
Lookup(tree, p) == Walk(tree, Root, Tail(p))

\* no entry: what a path that leads nowhere resolves to
NoPath == <<<<>>>>

\* the path, free of '..', of the entry that path p leads to
RealPath(tree, p) ==
    LET found == Lookup(tree, p)
    IN IF found.exc = "" THEN found.value ELSE NoPath

\* Path.exists(), Path.is_file(), Path.is_dir(): they stat() the path and
\* answer False when the lookup finds no entry (ENOENT, ENOTDIR); the
\* PermissionError of a path behind a directory that may not be searched is
\* raised to the caller
Exists(tree, p) ==
    LET found == Lookup(tree, p)
    IN IF found.exc = "PermissionError" THEN found ELSE Answer(found.exc = "")

IsFile(tree, p) ==
    LET found == Lookup(tree, p)
    IN IF found.exc = "PermissionError" THEN found
       ELSE Answer(found.exc = "" /\ HasFile(tree, found.value))

IsDir(tree, p) ==
    LET found == Lookup(tree, p)
    IN IF found.exc = "PermissionError" THEN found
       ELSE Answer(found.exc = "" /\ HasDir(tree, found.value))

\* Path.stat() of an entry that is there and may be reached
Stat(tree, p) ==
    LET real == RealPath(tree, p)
    IN tree[CHOOSE i \in 1..Len(tree) : tree[i].path = real]

\* what Path.stat() raises for p, "" when it returns
StatError(tree, p) == Lookup(tree, p).exc

\* Path.iterdir(), os.scandir(): the entries directly in the directory at
\* d, in the order the directory lists them
Iterdir(tree, d) ==
    LET real == RealPath(tree, d)
    IN SelectSeq(tree, LAMBDA e : Len(e.path) = Len(real) + 1 /\ IsUnder(e.path, real))

\* what Path.iterdir() and os.scandir() raise for d, "" when they list d
ListingError(tree, d) ==
    LET found == Lookup(tree, d)
    IN IF found.exc # "" THEN found.exc
       ELSE IF HasFile(tree, found.value) THEN "NotADirectoryError"
       ELSE IF found.value \in Unreadable(tree) THEN "PermissionError"
       ELSE ""

\* every entry below the directory at d that is not behind a directory the
\* process may not list; nothing when d is no directory it can reach
Below(tree, d) ==
    LET real == RealPath(tree, d)
        closed == Unreadable(tree)
    IN IF HasDir(tree, real)
       THEN SelectSeq(tree, LAMBDA e :
               /\ IsUnder(e.path, real)
               /\ \A q \in closed : ~IsUnder(e.path, q))
       ELSE <<>>

\* the exceptions of the file system calls, all of them OSError
OSErrors ==
    {"PermissionError", "FileNotFoundError", "IsADirectoryError",
     "NotADirectoryError"}

\* UTF-8: the number of bytes of the sequence that byte b begins, 0 when no
\* sequence begins with b
SequenceLength(b) ==
    IF b < 128 THEN 1
    ELSE IF b \in 194..223 THEN 2
    ELSE IF b \in 224..239 THEN 3
    ELSE IF b \in 240..244 THEN 4
    ELSE 0

\* a byte that continues a sequence
IsContinuation(b) == b \in 128..191

\* the second byte of a sequence beginning with b1 may be b2: no overlong
\* form, no surrogate, nothing above U+10FFFF
SecondByteFits(b1, b2) ==
    IF b1 = 224 THEN b2 \in 160..191
    ELSE IF b1 = 237 THEN b2 \in 128..159
    ELSE IF b1 = 240 THEN b2 \in 144..191
    ELSE IF b1 = 244 THEN b2 \in 128..143
    ELSE IsContinuation(b2)

\* a whole sequence begins at position i
SequenceAt(bytes, i) ==
    LET n == SequenceLength(bytes[i])
    IN /\ n > 0
       /\ i + n - 1 <= Len(bytes)
       /\ n > 1 => SecondByteFits(bytes[i], bytes[i + 1])
       /\ \A j \in (i + 2)..(i + n - 1) : IsContinuation(bytes[j])

\* the bytes are sequences one after the other: a sequence begins at
\* every byte that continues none, and every byte that continues one lies
\* in the sequence begun last before it
IsUtf8(bytes) ==
    \A j \in 1..Len(bytes) :
        IF IsContinuation(bytes[j])
        THEN \E i \in (j - 3)..(j - 1) :
                /\ i >= 1
                /\ ~IsContinuation(bytes[i])
                /\ i + SequenceLength(bytes[i]) > j
                /\ \A k \in (i + 1)..(j - 1) : IsContinuation(bytes[k])
        ELSE SequenceAt(bytes, j)

\* the code point of the sequence that begins at position i
CodePointAt(bytes, i) ==
    LET n == SequenceLength(bytes[i])
        low(j) == bytes[j] % 64
    IN IF n = 1 THEN bytes[i]
       ELSE IF n = 2 THEN (bytes[i] % 32) * 64 + low(i + 1)
       ELSE IF n = 3
       THEN (bytes[i] % 16) * 4096 + low(i + 1) * 64 + low(i + 2)
       ELSE (bytes[i] % 8) * 262144 + low(i + 1) * 4096 + low(i + 2) * 64
            + low(i + 3)

\* bytes.decode('utf-8') of bytes that are UTF-8
Utf8Decode(bytes) ==
    Concat([i \in 1..Len(bytes) |->
               IF IsContinuation(bytes[i]) THEN <<>>
               ELSE <<CodePointAt(bytes, i)>>],
           1, Len(bytes))

\* what a file opened in text mode makes of the line ends: '\r\n' and
\* '\r' are read as '\n'
UniversalNewlines(str) ==
    Concat([i \in 1..Len(str) |->
               IF str[i] = 13 THEN <<10>>
               ELSE IF str[i] = 10 /\ i > 1 /\ str[i - 1] = 13 THEN <<>>
               ELSE <<str[i]>>],
           1, Len(str))

OnlyDirs(entries) == SelectSeq(entries, LAMBDA e : e.kind = "dir")

\* the paths of a sequence of entries
PathsOf(entries) == {entries[i].path : i \in 1..Len(entries)}

\* the directories a walk of the directory at d lists (os.walk): d and
\* every directory below it, but those the process may not reach or list
ListedBy(tree, d) ==
    LET real == RealPath(tree, d)
    IN IF HasDir(tree, real) /\ real \notin Unreadable(tree)
       THEN {real} \cup (PathsOf(OnlyDirs(Below(tree, real))) \ Unreadable(tree))
       ELSE {}

\* the organisation directories the loop over directory.iterdir() lists:
\* those before the first that cannot be listed, where the loop ends
ListedOrgs(tree, directory) ==
    LET org_dirs == OnlyDirs(Iterdir(tree, directory))
        closed == {i \in 1..Len(org_dirs) : ListingError(tree, org_dirs[i].path) # ""}
        n == IF closed = {} THEN Len(org_dirs)
             ELSE (CHOOSE i \in closed : \A j \in closed : i <= j) - 1
    IN SubSeq(org_dirs, 1, n)

\* the directories the loops of _count_repos and of get_cached_repos list
\* in `directory`: it and its organisations, and with `deep` (the
\* get_folder_size of _get_repo_info) the repositories and what is in them
ListedByLoops(tree, directory, deep) ==
    IF ListingError(tree, directory) # "" THEN {}
    ELSE {directory} \cup PathsOf(ListedOrgs(tree, directory))
         \cup (IF deep
                THEN UNION {ListedBy(tree, repo_dir) :
                               repo_dir \in UNION {PathsOf(OnlyDirs(Iterdir(tree, org_dir))) :
                                                      org_dir \in PathsOf(ListedOrgs(tree, directory))}}
                ELSE {})

\* the tree after the entries at `paths` were listed or read at time `when`
Accessed(tree, paths, when) ==
    [i \in 1..Len(tree) |->
        IF tree[i].path \in paths THEN [tree[i] EXCEPT !.atime = when] ELSE tree[i]]

\* the mount options that decide whether listing a directory or reading a
\* file sets its access time
Mounts == {"noatime", "relatime", "strictatime"}

\* time x is not after time y
NotAfter(x, y) == x.s < y.s \/ (x.s = y.s /\ x.us <= y.us)

\* relatime sets the access time of an entry that was modified or changed
\* since it was last accessed, or last accessed a day of whole seconds ago
\* or longer
Stale(e, when) ==
    \/ NotAfter(e.atime, e.mtime)
    \/ NotAfter(e.atime, e.ctime)
    \/ when.s - e.atime.s >= Day

\* what listing or reading the entries at `paths` now leaves of the tree
AfterScan(tree, paths) ==
    CASE mount = "noatime" -> tree
      [] mount = "strictatime" -> Accessed(tree, paths, DatetimeNow)
      [] mount = "relatime" ->
            Accessed(tree, {tree[i].path : i \in {k \in 1..Len(tree) :
                                tree[k].path \in paths /\ Stale(tree[k], DatetimeNow)}},
                     DatetimeNow)

OnlyFiles(entries) == SelectSeq(entries, LAMBDA e : e.kind = "file")

\* sum of the sizes of a sequence of entries
RECURSIVE SumSizes(_)
SumSizes(entries) ==
    IF entries = <<>> THEN 0
    ELSE entries[1].size + SumSizes(Tail(entries))

\* get_folder_size(path): the recursive byte sum of the files below path
get_folder_size(tree, p) == SumSizes(OnlyFiles(Below(tree, p)))

\* the loops of _count_repos over the entries org_dirs of `directory`: the
\* number of directories in its directories, or the error of the first of
\* them that cannot be listed
RECURSIVE CountRepoDirs(_, _)
CountRepoDirs(tree, org_dirs) ==
    IF org_dirs = <<>> THEN Answer(0)
    ELSE LET org_dir == org_dirs[1]
             error == IF org_dir.kind = "dir"
                      THEN ListingError(tree, org_dir.path) ELSE ""
             rest == CountRepoDirs(tree, Tail(org_dirs))
         IN IF error # "" THEN Failure(error)
            ELSE IF rest.exc # "" THEN rest
            ELSE Answer((IF org_dir.kind = "dir"
                         THEN Len(OnlyDirs(Iterdir(tree, org_dir.path)))
                         ELSE 0) + rest.value)

\* _count_repos(directory): 0 when a listing raises
CountRepos(tree, directory) ==
    LET count == IF ListingError(tree, directory) # ""
                 THEN Failure(ListingError(tree, directory))
                 ELSE CountRepoDirs(tree, Iterdir(tree, directory))
    IN IF count.exc # "" THEN 0 ELSE count.value

\* ------------------------------------------------------- Path.rglob("*")

\* directory.rglob("*") before its first step.  The generator walks the
\* tree one system call at a time: is_dir() of the directory, then for
\* every directory it comes to (its `point`) a first scandir whose entries
\* it hands out one by one (`items`), and a second scandir whose directories
\* it walks next, before those still `pending`
Rglob(directory) ==
    [phase |-> "is_dir", point |-> directory, items |-> <<>>,
     pending |-> <<>>, exc |-> ""]

\* the generator that is exhausted
NoGlob ==
    [phase |-> "done", point |-> <<>>, items |-> <<>>, pending |-> <<>>,
     exc |-> ""]

\* the generator ended by the exception e
Broken(e) == [NoGlob EXCEPT !.phase = "raised", !.exc = e]

\* the paths a scandir of g.point hands out: the point and the name
Children(entries, point) ==
    [i \in 1..Len(entries) |-> Append(point, NameOf(entries[i].path))]

\* the walk goes on to the directory that is next, or ends
NextPoint(g) ==
    IF g.pending = <<>> THEN NoGlob
    ELSE [g EXCEPT !.phase = "select", !.point = Head(g.pending),
                   !.pending = Tail(g.pending)]

\* one system call of the generator.  A PermissionError of scandir is
\* caught and the directory taken as empty; another OSError (the directory
\* is gone, or a file by now) ends the generator and is raised to its
\* consumer, as is the PermissionError of is_dir()
GlobStep(tree, g) ==
    LET found == IsDir(tree, g.point)
        error == ListingError(tree, g.point)
        entries == Iterdir(tree, g.point)
    IN CASE g.phase = "is_dir" ->
               IF found.exc # "" THEN Broken(found.exc)
               ELSE IF found.value THEN [g EXCEPT !.phase = "select"]
               ELSE NoGlob
         [] g.phase = "select" ->
               IF error = "PermissionError" THEN [g EXCEPT !.phase = "iterate"]
               ELSE IF error # "" THEN Broken(error)
               ELSE IF entries = <<>> THEN [g EXCEPT !.phase = "iterate"]
               ELSE [g EXCEPT !.phase = "yield",
                              !.items = Children(entries, g.point)]
         [] g.phase = "iterate" ->
               IF error = "PermissionError" THEN NextPoint(g)
               ELSE IF error # "" THEN Broken(error)
               ELSE NextPoint([g EXCEPT !.pending =
                                  Children(OnlyDirs(entries), g.point) \o @])
         [] OTHER -> g

\* the generator after its consumer took the path it handed out
Taken(g) ==
    IF Len(g.items) > 1 THEN [g EXCEPT !.items = Tail(@)]
    ELSE [g EXCEPT !.items = <<>>, !.phase = "iterate"]

\* the directory the step lists
GlobListed(tree, g) ==
    IF g.phase \in {"select", "iterate"} /\ ListingError(tree, g.point) = ""
    THEN {RealPath(tree, g.point)}
    ELSE {}

\* the generator has nothing more to give
Exhausted(g) == g.phase \in {"done", "raised"}

\* sum(1 for _ in directory.rglob("*") if _.is_file()) before its first
\* step: the generator and the sum so far
CountFrame(directory) == [glob |-> Rglob(directory), count |-> 0]

\* no sum is running
NoCount == [glob |-> NoGlob, count |-> 0]

\* one system call of the sum of _count_files: a step of the generator, or
\* is_file() of the path it handed out, whose PermissionError ends the sum
CountFiles(tree, c) ==
    IF c.glob.phase # "yield" THEN [c EXCEPT !.glob = GlobStep(tree, c.glob)]
    ELSE LET found == IsFile(tree, Head(c.glob.items))
         IN IF found.exc # "" THEN [c EXCEPT !.glob = Broken(found.exc)]
            ELSE [c EXCEPT !.glob = Taken(c.glob),
                           !.count = IF found.value THEN @ + 1 ELSE @]

\* what _count_files returns: the sum, 0 when a call raised (lines 169-170)
CountResult(c) == IF c.glob.phase = "raised" THEN 0 ELSE c.count

\* what the proxy layer and the fixtures do to the tree

\* an ancestor of path p is a file
UnderFile(tree, p) ==
    \E n \in 1..(Len(p) - 1) : HasFile(tree, SubSeq(p, 1, n))

\* os.makedirs(p, exist_ok=True)
RECURSIVE Makedirs(_, _)
Makedirs(tree, p) ==
    IF Has(tree, p) THEN tree
    ELSE Append(Makedirs(tree, Parent(p)), Entry(p, "dir", 0, Epoch, Epoch, <<>>))

\* the tree after entry e was made (a directory, or a file written into
\* its directory); an entry that is there already is left as it is
Create(tree, e) ==
    IF Has(tree, e.path) \/ UnderFile(tree, e.path) THEN tree
    ELSE Append(Makedirs(tree, Parent(e.path)), e)

\* the trees made of at most n entries out of candidates, in every order
RECURSIVE TreesOf(_, _)
TreesOf(candidates, n) ==
    IF n = 0 THEN {NoTree}
    ELSE LET smaller == TreesOf(candidates, n - 1)
         IN smaller \cup {Create(tree, e) : tree \in smaller, e \in candidates}

\* the thread that scans the tree
Scanner == "c1"

\* a caller thread starts an inventory call with argument a at label first
Scan(t, a, first) ==
    /\ t \in Callers
    /\ Goto(t, "idle", first)
    /\ arg' = [arg EXCEPT ![t] = a]
    /\ ret' = [ret EXCEPT ![t] = NoRet]

\* an optional argument that is given
Some(x) == <<x>>

\* ----------------------------------------------------- get_cache_overview

\* total_size = 0; total_files = 0; repo_counts = {}
\* (size and file_count are the locals of the running round, counting is
\* the sum of _count_files that is under way)
OverviewFrame ==
    [op |-> "get_cache_overview",
     locals |-> [total_size |-> 0, total_files |-> 0, repo_counts |-> <<>>,
                 i |-> 1, size |-> 0, file_count |-> 0, counting |-> NoCount]]

OvCall(t) ==
    /\ Scan(t, None, "ov_loop")
    /\ frame' = [frame EXCEPT ![t] = OverviewFrame]
    /\ UNCHANGED <<lock, max_history_size, reqVars, sysVars, cacheVars, now,
                   tmp, grsVars, calls, recorded, sampled, glVars, fs,
                   mount>>

\* the directory of the running round
OvDir(t) == cache_dirs[CategoryOrder[frame[t].locals.i]]

\* for repo_type, cache_dir in self.cache_dirs.items():
\*     if cache_dir.exists(): size = get_folder_size(str(cache_dir))
\* (the PermissionError of exists() is caught nowhere: it ends the call)
OvCategory(t) ==
    /\ pc[t] = "ov_loop"
    /\ frame[t].locals.i <= Len(CategoryOrder)
    /\ LET found == Exists(fs, OvDir(t))
       IN IF found.exc # ""
          THEN /\ pc' = [pc EXCEPT ![t] = "ov_exit"]
               /\ ret' = [ret EXCEPT ![t] = Raised("get_cache_overview", found.exc)]
               /\ frame' = frame
          ELSE IF found.value
          THEN /\ pc' = [pc EXCEPT ![t] = "ov_count"]
               /\ ret' = ret
               /\ frame' = [frame EXCEPT
                               ![t].locals.size = get_folder_size(fs, OvDir(t)),
                               ![t].locals.counting = CountFrame(OvDir(t))]
          ELSE /\ pc' = pc
               /\ ret' = ret
               /\ frame' = [frame EXCEPT ![t].locals.i = @ + 1]
    /\ fs' = AfterScan(fs, IF Exists(fs, OvDir(t)) = Answer(TRUE)
                              THEN ListedBy(fs, OvDir(t)) ELSE {})
    /\ UNCHANGED <<lock, max_history_size, reqVars, sysVars, cacheVars, now,
                   arg, tmp, grsVars, calls, recorded, sampled, glVars,
                   mount>>

\* file_count = self._count_files(cache_dir): one system call of the sum at
\* a time, and the assignment with the last of them
OvCount(t) ==
    /\ pc[t] = "ov_count"
    /\ LET counting == CountFiles(fs, frame[t].locals.counting)
       IN IF Exhausted(counting.glob)
          THEN /\ pc' = [pc EXCEPT ![t] = "ov_repos"]
               /\ frame' = [frame EXCEPT
                               ![t].locals.file_count = CountResult(counting),
                               ![t].locals.counting = NoCount]
          ELSE /\ pc' = pc
               /\ frame' = [frame EXCEPT ![t].locals.counting = counting]
    /\ fs' = AfterScan(fs, GlobListed(fs, frame[t].locals.counting.glob))
    /\ UNCHANGED <<lock, max_history_size, reqVars, sysVars, cacheVars, now,
                   arg, tmp, grsVars, ret, calls, recorded, sampled, glVars,
                   mount>>

\* lines 41-48: the totals and the entry of the category, with its
\* repo_count
OverviewRound(l, tree) ==
    LET repo_type == CategoryOrder[l.i]
    IN [l EXCEPT !.total_size = @ + l.size,
                 !.total_files = @ + l.file_count,
                 !.repo_counts = Put(@, repo_type,
                     [size |-> l.size, file_count |-> l.file_count,
                      repo_count |-> CountRepos(tree, cache_dirs[repo_type])]),
                 !.i = @ + 1]

OvRepos(t) ==
    /\ Goto(t, "ov_repos", "ov_loop")
    /\ frame' = [frame EXCEPT ![t].locals = OverviewRound(frame[t].locals, fs)]
    /\ fs' = AfterScan(fs, ListedByLoops(fs, OvDir(t), FALSE))
    /\ UNCHANGED <<lock, max_history_size, reqVars, sysVars, cacheVars, now,
                   arg, tmp, grsVars, ret, calls, recorded, sampled, glVars,
                   mount>>

\* return {"total_size": ..., "total_files": ..., "repo_counts": ..., ...}
OvReturn(t) ==
    /\ Goto(t, "ov_loop", "ov_exit")
    /\ frame[t].locals.i > Len(CategoryOrder)
    /\ ret' = [ret EXCEPT ![t] = Returned("get_cache_overview",
                  [total_size   |-> frame[t].locals.total_size,
                   total_files  |-> frame[t].locals.total_files,
                   repo_counts  |-> frame[t].locals.repo_counts,
                   last_updated |-> IsoFormat(DatetimeNow)])]
    /\ UNCHANGED <<lock, max_history_size, reqVars, sysVars, cacheVars, now,
                   arg, tmp, grsVars, calls, recorded, sampled, frame, glVars, fs,
                   mount>>

\* the caller has the result
ScanExit(t, from) ==
    /\ Goto(t, from, "idle")
    /\ frame' = [frame EXCEPT ![t] = NoFrame]
    /\ ret' = [ret EXCEPT ![t] = NoRet]
    /\ UNCHANGED <<lock, max_history_size, reqVars, sysVars, cacheVars, now,
                   arg, tmp, grsVars, calls, recorded, sampled, glVars, fs,
                   mount>>

OvExit(t) == ScanExit(t, "ov_exit")

\* --------------------------------------------------------- _get_repo_info

\* str.isspace() of one character: the white space of Unicode (tab to
\* carriage return, the four separators below the blank, the blank, next
\* line, no-break space, ogham space, en quad to hair space, line and
\* paragraph separator, narrow no-break space, medium mathematical space,
\* ideographic space)
IsSpace(c) ==
    \/ c \in 9..13
    \/ c \in 28..32
    \/ c \in {133, 160, 5760}
    \/ c \in 8192..8202
    \/ c \in {8232, 8233, 8239, 8287, 12288}

\* str.strip(): from the first to the last character that is not white space
Strip(str) ==
    LET inked == {i \in 1..Len(str) : ~IsSpace(str[i])}
    IN IF inked = {} THEN <<>>
       ELSE SubSeq(str,
                   CHOOSE i \in inked : \A j \in inked : i <= j,
                   CHOOSE i \in inked : \A j \in inked : j <= i)

\* seq[:n]: the first n elements, all of them when there are fewer; for a
\* negative n all but the last -n
Take(seq, n) ==
    LET stop == IF n < 0 THEN Len(seq) + n ELSE n
    IN SubSeq(seq, 1, IF stop < 0 THEN 0
                      ELSE IF Len(seq) < stop THEN Len(seq) ELSE stop)

\* str.startswith(prefix)
StartsWith(str, prefix) ==
    /\ Len(str) >= Len(prefix)
    /\ SubSeq(str, 1, Len(prefix)) = prefix

\* str.replace(old, ""), old not empty: without the occurrences of old,
\* found from the left, each behind the end of the one before
RECURSIVE Remove(_, _)
Remove(str, old) ==
    LET found == {i \in 1..(Len(str) - Len(old) + 1) :
                     SubSeq(str, i, i + Len(old) - 1) = old}
        first == CHOOSE i \in found : \A j \in found : i <= j
    IN IF found = {} THEN str
       ELSE SubSeq(str, 1, first - 1)
            \o Remove(SubSeq(str, first + Len(old), Len(str)), old)

\* open(path, 'r') and f.read(), the text encoding being UTF-8: the text of
\* the file, or what open() or read() raises: the error of the lookup, of
\* opening a directory (one the process may not list, or any other), of
\* opening a file it may not read, or of decoding the bytes
ReadText(tree, p) ==
    LET found == Lookup(tree, p)
        opened == Stat(tree, p)
    IN IF found.exc # "" THEN found
       ELSE IF opened.kind = "dir"
       THEN Failure(IF opened.readable THEN "IsADirectoryError" ELSE "PermissionError")
       ELSE IF ~opened.readable THEN Failure("PermissionError")
       ELSE IF ~IsUtf8(opened.data) THEN Failure("UnicodeDecodeError")
       ELSE Answer(UniversalNewlines(Utf8Decode(opened.data)))

\* open() and read() of the file at p reached its bytes
WasRead(tree, p) == ReadText(tree, p).exc \in {"", "UnicodeDecodeError"}

dot_git == <<46, 103, 105, 116>>
HEAD == <<72, 69, 65, 68>>

\* 'ref: refs/heads/'
RefsHeads == <<114, 101, 102, 58, 32, 114, 101, 102, 115, 47, 104, 101, 97,
               100, 115, 47>>

\* the length of a partial commit hash
HashPrefix == 8

\* lines 226-235 of _get_git_info: the dict made of the text of HEAD
GitInfo(text) ==
    LET head_content == Strip(text)
    IN [branch |-> IF StartsWith(head_content, RefsHeads)
                   THEN Remove(head_content, RefsHeads)
                   ELSE Take(head_content, HashPrefix),
        is_git_repo |-> TRUE]

\* README.md, readme.md, README.txt, readme.txt
readme_files ==
    << <<82, 69, 65, 68, 77, 69, 46, 109, 100>>,
       <<114, 101, 97, 100, 109, 101, 46, 109, 100>>,
       <<82, 69, 65, 68, 77, 69, 46, 116, 120, 116>>,
       <<114, 101, 97, 100, 109, 101, 46, 116, 120, 116>> >>

\* the README text that counts as description
DescriptionLength == 200

\* _get_repo_description(repo_path) on a tree that stays as it is: the
\* start of the first README that is there and can be opened and decoded;
\* the PermissionError of readme_path.exists() (line 248, outside the try)
\* is raised to the caller
RepoDescription(tree, repo_path) ==
    LET usable == {i \in 1..Len(readme_files) :
                      /\ Exists(tree, Append(repo_path, readme_files[i])) = Answer(TRUE)
                      /\ ReadText(tree, Append(repo_path, readme_files[i])).exc = ""}
        first == CHOOSE i \in usable : \A j \in usable : i <= j
        found == Exists(tree, Append(repo_path, readme_files[1]))
    IN IF found.exc # "" THEN found
       ELSE IF usable = {} THEN Answer(<<>>)
       ELSE Answer(Strip(Take(ReadText(tree, Append(repo_path, readme_files[first])).value,
                              DescriptionLength)))

\* the base fields of a repository record, of the stat() result and the
\* size got for it
RepoInfo(repo_type, org, repo, repo_path, stat, size) ==
    [repo_type     |-> repo_type,
     org           |-> org,
     repo          |-> repo,
     full_name     |-> org \o Slash \o repo,
     size          |-> size,
     last_modified |-> IsoFormat(stat.mtime),
     last_access   |-> IsoFormat(stat.atime),
     path          |-> repo_path]

\* _get_repo_info(..., detailed=False): None when stat() fails
GetRepoInfo(tree, repo_type, org, repo, repo_path) ==
    IF StatError(tree, repo_path) # "" THEN None
    ELSE RepoInfo(repo_type, org, repo, repo_path, Stat(tree, repo_path),
                  get_folder_size(tree, repo_path))

\* the locals of _get_repo_info(..., detailed=True) and of the calls it
\* makes, before its first statement: `phase` is the system call that is
\* next, i the README of the loop of _get_repo_description
DetailsFrame ==
    [op |-> "get_repo_details",
     locals |-> [phase |-> "stat", stat |-> None, size |-> 0,
                 counting |-> NoCount, file_count |-> 0, git_info |-> None,
                 i |-> 1, description |-> <<>>, exc |-> ""]]

\* the loop of _get_repo_description goes on to the next name, or ends and
\* "" is returned
NextReadme(l) ==
    IF l.i < Len(readme_files) THEN [l EXCEPT !.phase = "readme", !.i = @ + 1]
    ELSE [l EXCEPT !.phase = "return"]

\* one system call of _get_repo_info(..., detailed=True): stat() and
\* get_folder_size, the steps of _count_files, of _get_git_info (exists()
\* of .git and of HEAD, the read) and of _get_repo_description (exists()
\* and the read of one README after the other).  Phase "none" is the
\* return of None from the except clause of line 213, "raised" the
\* UnicodeDecodeError of HEAD, which no clause catches, "return" the return
\* of the record
DetailedRepoInfo(tree, repo_path, l) ==
    LET git_dir == Append(repo_path, dot_git)
        head_file == Append(git_dir, HEAD)
        readme_path == Append(repo_path, readme_files[l.i])
        counting == CountFiles(tree, l.counting)
        stat == Stat(tree, repo_path)
        head == ReadText(tree, head_file)
        found == Exists(tree, readme_path)
        content == ReadText(tree, readme_path)
    IN CASE l.phase = "stat" ->
               IF StatError(tree, repo_path) # "" THEN [l EXCEPT !.phase = "none"]
               ELSE [l EXCEPT !.phase = "size",
                              !.stat = [mtime |-> stat.mtime, atime |-> stat.atime]]
         [] l.phase = "size" ->
               [l EXCEPT !.phase = "count",
                         !.size = get_folder_size(tree, repo_path),
                         !.counting = CountFrame(repo_path)]
         [] l.phase = "count" ->
               IF Exhausted(counting.glob)
               THEN [l EXCEPT !.phase = "git_dir",
                              !.file_count = CountResult(counting),
                              !.counting = NoCount]
               ELSE [l EXCEPT !.counting = counting]
         [] l.phase = "git_dir" ->
               IF Exists(tree, git_dir) = Answer(TRUE) THEN [l EXCEPT !.phase = "head"]
               ELSE [l EXCEPT !.phase = "readme"]
         [] l.phase = "head" ->
               IF Exists(tree, head_file) = Answer(TRUE)
               THEN [l EXCEPT !.phase = "read_head"]
               ELSE [l EXCEPT !.phase = "readme"]
         [] l.phase = "read_head" ->
               IF head.exc \in OSErrors THEN [l EXCEPT !.phase = "readme"]
               ELSE IF head.exc # ""
               THEN [l EXCEPT !.phase = "raised", !.exc = head.exc]
               ELSE [l EXCEPT !.phase = "readme", !.git_info = GitInfo(head.value)]
         [] l.phase = "readme" ->
               IF found.exc # "" THEN [l EXCEPT !.phase = "none"]
               ELSE IF found.value THEN [l EXCEPT !.phase = "read_readme"]
               ELSE NextReadme(l)
         [] l.phase = "read_readme" ->
               IF content.exc # "" THEN NextReadme(l)
               ELSE [l EXCEPT !.phase = "return",
                              !.description =
                                  Strip(Take(content.value, DescriptionLength))]
         [] OTHER -> l

\* what that step lists and reads: the directories of the repository
\* (get_folder_size), the directory of a scandir, the HEAD, a README
ReadByInfo(tree, repo_path, l) ==
    LET head_file == repo_path \o <<dot_git, HEAD>>
        readme_path == Append(repo_path, readme_files[l.i])
    IN IF l.phase = "size" THEN ListedBy(tree, repo_path)
       ELSE IF l.phase = "count" THEN GlobListed(tree, l.counting.glob)
       ELSE IF l.phase = "read_head" /\ WasRead(tree, head_file)
       THEN {RealPath(tree, head_file)}
       ELSE IF l.phase = "read_readme" /\ WasRead(tree, readme_path)
       THEN {RealPath(tree, readme_path)}
       ELSE {}

\* -------------------------------------------------------- get_cached_repos

\* Python's truth value of an optional string and of an optional int
TruthyStr(a) == a # None /\ a[1] # ""

TruthyInt(a) == a # None /\ a[1] # 0

RepoTypesOf_EveryCategory(repo_type) ==
    IF TruthyStr(repo_type) THEN <<repo_type[1]>>
    ELSE CategoryOrder

\* repo_types: the one asked for, or the three repository categories
RepoTypesOf(repo_type) ==
    IF TruthyStr(repo_type) THEN <<repo_type[1]>>
    ELSE <<"models", "datasets", "spaces">>

\* the records of the directories in the entries of one organisation
RECURSIVE ReposOfOrg(_, _, _, _)
ReposOfOrg(tree, rt, org_dir, repo_dirs) ==
    IF repo_dirs = <<>> THEN <<>>
    ELSE LET repo_dir == repo_dirs[1]
             org == org_dir.path[Len(org_dir.path)]
             repo == repo_dir.path[Len(repo_dir.path)]
             repo_info == GetRepoInfo(tree, rt, org, repo, repo_dir.path)
         IN (IF repo_dir.kind = "dir" /\ repo_info # None
             THEN <<repo_info>>
             ELSE <<>>)
            \o ReposOfOrg(tree, rt, org_dir, Tail(repo_dirs))

\* the records of the repositories in the directories among org_dirs
RECURSIVE ReposOfOrgs(_, _, _)
ReposOfOrgs(tree, rt, org_dirs) ==
    IF org_dirs = <<>> THEN <<>>
    ELSE (IF org_dirs[1].kind = "dir"
          THEN ReposOfOrg(tree, rt, org_dirs[1], Iterdir(tree, org_dirs[1].path))
          ELSE <<>>)
         \o ReposOfOrgs(tree, rt, Tail(org_dirs))

\* one round of `for rt in repo_types:`
ReposOfType(tree, rt) ==
    IF rt \notin Categories THEN <<>>
    ELSE IF Exists(tree, cache_dirs[rt]) # Answer(TRUE) THEN <<>>
    ELSE ReposOfOrgs(tree, rt, Iterdir(tree, cache_dirs[rt]))

\* what one round of `for rt in repo_types:` raises: the error of
\* cache_dir.exists(), or of the first directory that cannot be listed; ""
\* when the round ends
ScanError(tree, rt) ==
    IF rt \notin Categories THEN ""
    ELSE IF Exists(tree, cache_dirs[rt]).exc # "" THEN Exists(tree, cache_dirs[rt]).exc
    ELSE IF ~Exists(tree, cache_dirs[rt]).value THEN ""
    ELSE IF ListingError(tree, cache_dirs[rt]) # ""
    THEN ListingError(tree, cache_dirs[rt])
    ELSE IF \E i \in 1..Len(tree) :
               /\ tree[i].kind = "dir"
               /\ ~tree[i].readable
               /\ Len(tree[i].path) = Len(cache_dirs[rt]) + 1
               /\ IsUnder(tree[i].path, cache_dirs[rt])
    THEN "PermissionError"
    ELSE ""

\* key(x) < key(y) for the sort key sort_by
KeyLess(sort_by, x, y) ==
    IF sort_by = "size" THEN x.size < y.size
    ELSE IF sort_by = "last_access" THEN StrLess(x.last_access, y.last_access)
    ELSE IF sort_by = "last_modified" THEN StrLess(x.last_modified, y.last_modified)
    ELSE StrLess(x.full_name, y.full_name)

\* x has to come before y
Before(sort_by, reverse, x, y) ==
    IF reverse THEN KeyLess(sort_by, y, x) ELSE KeyLess(sort_by, x, y)

\* x put into a sorted list behind every record it does not have to precede
InsertSorted(sorted, x, sort_by, reverse) ==
    LET behind == {i \in 1..Len(sorted) : ~Before(sort_by, reverse, x, sorted[i])}
        k == IF behind = {} THEN 0
             ELSE CHOOSE i \in behind : \A j \in behind : j <= i
    IN SubSeq(sorted, 1, k) \o <<x>> \o SubSeq(sorted, k + 1, Len(sorted))

\* list.sort(key=..., reverse=...): stable in both directions
RECURSIVE StableSort(_, _, _)
StableSort(repos, sort_by, reverse) ==
    IF repos = <<>> THEN <<>>
    ELSE InsertSorted(StableSort(SubSeq(repos, 1, Len(repos) - 1), sort_by, reverse),
                      repos[Len(repos)], sort_by, reverse)

Reversed(seq) == [i \in 1..Len(seq) |-> seq[Len(seq) + 1 - i]]

SortKeys == {"size", "last_access", "last_modified", "name"}

\* the if / elif chain of sorts
SortRepos_ReverseOfAscending(repos, sort_by, sort_order) ==
    IF sort_by \notin SortKeys THEN repos
    ELSE IF sort_order = "desc" THEN Reversed(StableSort(repos, sort_by, FALSE))
    ELSE StableSort(repos, sort_by, FALSE)

SortRepos(repos, sort_by, sort_order) ==
    IF sort_by \in SortKeys THEN StableSort(repos, sort_by, sort_order = "desc")
    ELSE repos

\* if limit: repos = repos[:limit]
LimitRepos(repos, limit) ==
    IF TruthyInt(limit) THEN Take(repos, limit[1]) ELSE repos

\* the locals of get_cached_repos; query is the one of an enclosing
\* search_repos
ReposFrame(op, repo_type, limit, sort_by, sort_order, query) ==
    [op |-> op,
     locals |-> [repo_type |-> repo_type, limit |-> limit, sort_by |-> sort_by,
                 sort_order |-> sort_order, query |-> query,
                 repo_types |-> RepoTypesOf(repo_type), i |-> 1,
                 repos |-> <<>>, enumerated |-> <<>>, sorted |-> <<>>]]

\* the arguments the callers pass: every kind of repo_type, every sort key
\* in both orders, and limits around the number of repositories, one of
\* them negative (repos[:limit] then drops records from the end)
RepoTypeArgs ==
    {None, Some(""), Some("models"), Some("datasets"), Some("spaces"),
     Some("files"), Some("lfs"), Some("other")}

Limits == {None, Some(0), Some(1), Some(2), Some(-1)}

ListArgs ==
    {[repo_type |-> rt, limit |-> None, sort_by |-> "size", sort_order |-> "desc"] :
        rt \in RepoTypeArgs}
    \cup {[repo_type |-> None, limit |-> None, sort_by |-> sb, sort_order |-> so] :
        sb \in SortKeys \cup {"other"}, so \in {"asc", "desc"}}
    \cup {[repo_type |-> None, limit |-> l, sort_by |-> sb, sort_order |-> "desc"] :
        l \in Limits, sb \in {"size", "name"}}

GcrCall(t) ==
    /\ \E a \in ListArgs :
          /\ Scan(t, a, "gcr_loop")
          /\ frame' = [frame EXCEPT ![t] =
                ReposFrame("get_cached_repos", a.repo_type, a.limit, a.sort_by,
                           a.sort_order, <<>>)]
    /\ UNCHANGED <<lock, max_history_size, reqVars, sysVars, cacheVars, now,
                   tmp, grsVars, calls, recorded, sampled, glVars, fs,
                   mount>>

\* for rt in repo_types: one round
\* (an error of iterdir() is caught nowhere: it ends the call, and an
\* enclosing search_repos)
GcrScan(t) ==
    /\ pc[t] = "gcr_loop"
    /\ frame[t].locals.i <= Len(frame[t].locals.repo_types)
    /\ LET l == frame[t].locals
           found == ReposOfType(fs, l.repo_types[l.i])
           error == ScanError(fs, l.repo_types[l.i])
       IN IF error = ""
          THEN /\ frame' = [frame EXCEPT ![t].locals =
                              [l EXCEPT !.repos = @ \o found, !.i = @ + 1]]
               /\ UNCHANGED <<pc, ret, mount>>
          ELSE /\ pc' = [pc EXCEPT ![t] =
                          IF frame[t].op = "search_repos" THEN "sr_exit"
                          ELSE "gcr_exit"]
               /\ ret' = [ret EXCEPT ![t] = Raised(frame[t].op, error)]
               /\ frame' = frame
    /\ LET rt == frame[t].locals.repo_types[frame[t].locals.i]
       IN fs' = AfterScan(fs, IF rt \in Categories
                                   /\ Exists(fs, cache_dirs[rt]) = Answer(TRUE)
                                THEN ListedByLoops(fs, cache_dirs[rt], TRUE)
                                ELSE {})
    /\ UNCHANGED <<lock, max_history_size, reqVars, sysVars, cacheVars, now,
                   arg, tmp, grsVars, calls, recorded, sampled, glVars,
                   mount>>

\* the sort
GcrSort(t) ==
    /\ Goto(t, "gcr_loop", "gcr_limit")
    /\ frame[t].locals.i > Len(frame[t].locals.repo_types)
    /\ LET l == frame[t].locals
           sorted == SortRepos(l.repos, l.sort_by, l.sort_order)
       IN frame' = [frame EXCEPT ![t].locals =
                       [l EXCEPT !.enumerated = l.repos, !.repos = sorted,
                                 !.sorted = sorted]]
    /\ UNCHANGED <<lock, max_history_size, reqVars, sysVars, cacheVars, now,
                   arg, tmp, grsVars, ret, calls, recorded, sampled, glVars, fs,
                   mount>>

\* the limit
GcrLimit(t) ==
    /\ Goto(t, "gcr_limit", "gcr_return")
    /\ frame' = [frame EXCEPT ![t].locals.repos =
                    LimitRepos(@, frame[t].locals.limit)]
    /\ UNCHANGED <<lock, max_history_size, reqVars, sysVars, cacheVars, now,
                   arg, tmp, grsVars, ret, calls, recorded, sampled, glVars, fs,
                   mount>>

\* return repos: to the caller, or to search_repos
GcrReturn(t) ==
    /\ pc[t] = "gcr_return"
    /\ IF frame[t].op = "search_repos"
       THEN /\ pc' = [pc EXCEPT ![t] = "sr_filter"]
            /\ ret' = ret
       ELSE /\ pc' = [pc EXCEPT ![t] = "gcr_exit"]
            /\ ret' = [ret EXCEPT ![t] =
                         Returned("get_cached_repos", frame[t].locals.repos)]
    /\ UNCHANGED <<lock, max_history_size, reqVars, sysVars, cacheVars, now,
                   arg, tmp, grsVars, calls, recorded, sampled, frame, glVars, fs,
                   mount>>

GcrExit(t) == ScanExit(t, "gcr_exit")

\* ------------------------------------------------------------ search_repos

\* the queries the callers pass
Queries == {<<>>, <<120>>, <<65>>, <<122, 113>>, <<107>>}

\* all_repos = self.get_cached_repos(repo_type)
SrCall(t) ==
    /\ \E query \in Queries, repo_type \in {None, Some("models")} :
          /\ Scan(t, [query |-> query, repo_type |-> repo_type], "gcr_loop")
          /\ frame' = [frame EXCEPT ![t] =
                ReposFrame("search_repos", repo_type, None, "size", "desc", query)]
    /\ UNCHANGED <<lock, max_history_size, reqVars, sysVars, cacheVars, now,
                   tmp, grsVars, calls, recorded, sampled, glVars, fs,
                   mount>>

\* repo.get("description", "")
DescriptionOf(repo) ==
    IF "description" \in DOMAIN repo THEN repo.description ELSE <<>>

\* the records of all_repos that match the query
SearchResults(all_repos, query) ==
    SelectSeq(all_repos,
              LAMBDA repo : \/ Contains(Lower(repo.full_name), Lower(query))
                            \/ Contains(Lower(DescriptionOf(repo)), Lower(query)))

\* the loop over all_repos, and return results
SrFilter(t) ==
    /\ Goto(t, "sr_filter", "sr_exit")
    /\ ret' = [ret EXCEPT ![t] =
                 Returned("search_repos",
                          SearchResults(frame[t].locals.repos, frame[t].locals.query))]
    /\ UNCHANGED <<lock, max_history_size, reqVars, sysVars, cacheVars, now,
                   arg, tmp, grsVars, calls, recorded, sampled, frame, glVars, fs,
                   mount>>

SrExit(t) == ScanExit(t, "sr_exit")

\* -------------------------------------------------------- get_repo_details

\* the repositories the callers ask for: names, '..', a name with a
\* separator ('a/x') and an absolute path ('/repos')
a_slash_x == <<97, 47, 120>>
slash_repos == Slash \o repos_name

DetailArgs ==
    [repo_type : {"models", "datasets", "other"},
     org : {<<97>>, <<66>>, DotDot, a_slash_x, slash_repos},
     repo : {<<120>>, <<110>>, DotDot, datasets}]

GrdCall(t) ==
    /\ \E a \in DetailArgs : Scan(t, a, "grd_category")
    /\ frame' = [frame EXCEPT ![t] = DetailsFrame]
    /\ UNCHANGED <<lock, max_history_size, reqVars, sysVars, cacheVars, now,
                   tmp, grsVars, calls, recorded, sampled, glVars, fs,
                   mount>>

\* if not cache_dir or not cache_dir.exists(): return None
\* (the PermissionError of exists() is caught nowhere: it ends the call)
GrdCategory(t) ==
    /\ pc[t] = "grd_category"
    /\ LET found == IF arg[t].repo_type \in Categories
                    THEN Exists(fs, cache_dirs[arg[t].repo_type])
                    ELSE Answer(FALSE)
       IN IF found.exc # ""
          THEN /\ pc' = [pc EXCEPT ![t] = "grd_exit"]
               /\ ret' = [ret EXCEPT ![t] = Raised("get_repo_details", found.exc)]
          ELSE IF ~found.value
          THEN /\ pc' = [pc EXCEPT ![t] = "grd_exit"]
               /\ ret' = [ret EXCEPT ![t] = Returned("get_repo_details", None)]
          ELSE /\ pc' = [pc EXCEPT ![t] = "grd_path"]
               /\ ret' = ret
    /\ UNCHANGED <<lock, max_history_size, reqVars, sysVars, cacheVars, now,
                   arg, tmp, grsVars, calls, recorded, sampled, frame, glVars, fs,
                   mount>>

\* the parts of a relative path text: the names between its separators,
\* without the empty ones and the '.' ones; '..' stays
RECURSIVE Parts(_)
Parts(str) ==
    IF str = <<>> THEN <<>>
    ELSE LET seps == {i \in 1..Len(str) : str[i] = Slash[1]}
             end == IF seps = {} THEN Len(str) + 1
                    ELSE CHOOSE i \in seps : \A j \in seps : i <= j
             name == SubSeq(str, 1, end - 1)
         IN (IF name = <<>> \/ name = Dot THEN <<>> ELSE <<name>>)
            \o Parts(SubSeq(str, end + 1, Len(str)))

\* path / str: the parts of the text are added to the path; a text
\* beginning with the separator is an absolute path, which replaces it (its
\* root is '//' when it begins with just two separators)
JoinPath(path, str) ==
    IF str = <<>> \/ str[1] # Slash[1] THEN path \o Parts(str)
    ELSE IF Len(str) >= 2 /\ str[2] = Slash[1] /\ (Len(str) = 2 \/ str[3] # Slash[1])
    THEN <<Slash \o Slash>> \o Parts(str)
    ELSE Root \o Parts(str)

\* cache_dir / org / repo
RepoPath(repo_type, org, repo) ==
    JoinPath(JoinPath(cache_dirs[repo_type], org), repo)

\* if not repo_path.exists(): return None
\* (the PermissionError of exists() is caught nowhere: it ends the call)
GrdPath(t) ==
    /\ pc[t] = "grd_path"
    /\ LET found == Exists(fs, RepoPath(arg[t].repo_type, arg[t].org, arg[t].repo))
       IN IF found.exc # ""
          THEN /\ pc' = [pc EXCEPT ![t] = "grd_exit"]
               /\ ret' = [ret EXCEPT ![t] = Raised("get_repo_details", found.exc)]
          ELSE IF ~found.value
          THEN /\ pc' = [pc EXCEPT ![t] = "grd_exit"]
               /\ ret' = [ret EXCEPT ![t] = Returned("get_repo_details", None)]
          ELSE /\ pc' = [pc EXCEPT ![t] = "grd_info"]
               /\ ret' = ret
    /\ UNCHANGED <<lock, max_history_size, reqVars, sysVars, cacheVars, now,
                   arg, tmp, grsVars, calls, recorded, sampled, frame, glVars, fs,
                   mount>>

\* lines 191-209: the record of the locals l
RepoDetails(a, repo_path, l) ==
    [repo_type     |-> a.repo_type,
     org           |-> a.org,
     repo          |-> a.repo,
     full_name     |-> a.org \o Slash \o a.repo,
     size          |-> l.size,
     last_modified |-> IsoFormat(l.stat.mtime),
     last_access   |-> IsoFormat(l.stat.atime),
     path          |-> repo_path,
     file_count    |-> l.file_count,
     git_info      |-> l.git_info,
     description   |-> l.description]

\* return self._get_repo_info(repo_type, org, repo, repo_path, detailed=True):
\* one system call of it at a time, and the return with the last of them
\* (what _get_repo_info raises ends the call)
GrdInfo(t) ==
    /\ pc[t] = "grd_info"
    /\ LET repo_path == RepoPath(arg[t].repo_type, arg[t].org, arg[t].repo)
           l == DetailedRepoInfo(fs, repo_path, frame[t].locals)
       IN /\ frame' = [frame EXCEPT ![t].locals = l]
          /\ IF l.phase \in {"return", "none", "raised"}
             THEN /\ pc' = [pc EXCEPT ![t] = "grd_exit"]
                  /\ ret' = [ret EXCEPT ![t] =
                               IF l.phase = "raised"
                               THEN Raised("get_repo_details", l.exc)
                               ELSE Returned("get_repo_details",
                                             IF l.phase = "none" THEN None
                                             ELSE RepoDetails(arg[t], repo_path, l))]
             ELSE /\ pc' = pc
                  /\ ret' = ret
          /\ fs' = AfterScan(fs, ReadByInfo(fs, repo_path, frame[t].locals))
    /\ UNCHANGED <<lock, max_history_size, reqVars, sysVars, cacheVars, now,
                   arg, tmp, grsVars, calls, recorded, sampled, glVars,
                   mount>>

GrdExit(t) == ScanExit(t, "grd_exit")

\* ---------------------------------------------------- get_cache_efficiency

\* timedelta(days=7) and timedelta(days=30), in days
RecentDays == 7
OldDays == 30

\* the files the proxy layer has stored and evicted so far
Writes == Invoked("proxy.store") + Invoked("proxy.evict")

\* total_size = 0; total_files = 0; access_times = []
\* (counting is the sum of _count_files that is under way, glob the
\* generator of the loop of line 142, is_file whether is_file() of the path
\* it handed out has answered True; `now` is assigned in line 151; writes
\* is the number of files the proxy layer had written when the call began)
EfficiencyFrame ==
    [op |-> "get_cache_efficiency",
     locals |-> [total_size |-> 0, total_files |-> 0, access_times |-> <<>>,
                 i |-> 1, counting |-> NoCount, glob |-> NoGlob,
                 is_file |-> FALSE, now |-> None, writes |-> Writes]]

EffCall(t) ==
    /\ Scan(t, None, "eff_loop")
    /\ frame' = [frame EXCEPT ![t] = EfficiencyFrame]
    /\ UNCHANGED <<lock, max_history_size, reqVars, sysVars, cacheVars, now,
                   tmp, grsVars, calls, recorded, sampled, glVars, fs,
                   mount>>

\* the directory of the running round
EffDir(t) == cache_dirs[CategoryOrder[frame[t].locals.i]]

\* if cache_dir.exists(): total_size += get_folder_size(str(cache_dir))
\* (the PermissionError of exists() is caught nowhere: it ends the call)
EffSize(t) ==
    /\ pc[t] = "eff_loop"
    /\ frame[t].locals.i <= Len(CategoryOrder)
    /\ LET found == Exists(fs, EffDir(t))
       IN IF found.exc # ""
          THEN /\ pc' = [pc EXCEPT ![t] = "eff_exit"]
               /\ ret' = [ret EXCEPT ![t] = Raised("get_cache_efficiency", found.exc)]
               /\ frame' = frame
          ELSE IF found.value
          THEN /\ pc' = [pc EXCEPT ![t] = "eff_count"]
               /\ ret' = ret
               /\ frame' = [frame EXCEPT
                               ![t].locals.total_size = @ + get_folder_size(fs, EffDir(t)),
                               ![t].locals.counting = CountFrame(EffDir(t))]
          ELSE /\ pc' = pc
               /\ ret' = ret
               /\ frame' = [frame EXCEPT ![t].locals.i = @ + 1]
    /\ fs' = AfterScan(fs, IF Exists(fs, EffDir(t)) = Answer(TRUE)
                              THEN ListedBy(fs, EffDir(t)) ELSE {})
    /\ UNCHANGED <<lock, max_history_size, reqVars, sysVars, cacheVars, now,
                   arg, tmp, grsVars, calls, recorded, sampled, glVars,
                   mount>>

\* total_files += self._count_files(cache_dir): one system call of the sum
\* at a time, and the assignment with the last of them
EffCount(t) ==
    /\ pc[t] = "eff_count"
    /\ LET counting == CountFiles(fs, frame[t].locals.counting)
       IN IF Exhausted(counting.glob)
          THEN /\ pc' = [pc EXCEPT ![t] = "eff_atimes"]
               /\ frame' = [frame EXCEPT
                               ![t].locals.total_files = @ + CountResult(counting),
                               ![t].locals.counting = NoCount,
                               ![t].locals.glob = Rglob(EffDir(t))]
          ELSE /\ pc' = pc
               /\ frame' = [frame EXCEPT ![t].locals.counting = counting]
    /\ fs' = AfterScan(fs, GlobListed(fs, frame[t].locals.counting.glob))
    /\ UNCHANGED <<lock, max_history_size, reqVars, sysVars, cacheVars, now,
                   arg, tmp, grsVars, ret, calls, recorded, sampled, glVars,
                   mount>>

\* one system call of the loop of lines 142-148: a step of the generator,
\* is_file() of the path it handed out (its PermissionError ends the
\* loop), or stat() of a path that was a file, whose OSError is caught
AccessTimes(tree, l) ==
    LET file_path == Head(l.glob.items)
        found == IsFile(tree, file_path)
    IN IF l.glob.phase # "yield" THEN [l EXCEPT !.glob = GlobStep(tree, l.glob)]
       ELSE IF ~l.is_file
       THEN (IF found.exc # "" THEN [l EXCEPT !.glob = Broken(found.exc)]
             ELSE IF found.value THEN [l EXCEPT !.is_file = TRUE]
             ELSE [l EXCEPT !.glob = Taken(@)])
       ELSE IF StatError(tree, file_path) # ""
       THEN [l EXCEPT !.is_file = FALSE, !.glob = Taken(@)]
       ELSE [l EXCEPT !.is_file = FALSE, !.glob = Taken(@),
                      !.access_times = Append(@, Stat(tree, file_path).atime)]

\* for file_path in cache_dir.rglob("*"): ... access_times.append(atime)
\* (what the generator or is_file() raises is caught nowhere: it ends the
\* call)
EffAtimes(t) ==
    /\ pc[t] = "eff_atimes"
    /\ LET l == AccessTimes(fs, frame[t].locals)
       IN IF l.glob.phase = "raised"
          THEN /\ pc' = [pc EXCEPT ![t] = "eff_exit"]
               /\ ret' = [ret EXCEPT ![t] = Raised("get_cache_efficiency", l.glob.exc)]
               /\ frame' = [frame EXCEPT ![t].locals = l]
          ELSE IF l.glob.phase = "done"
          THEN /\ pc' = [pc EXCEPT ![t] = "eff_loop"]
               /\ ret' = ret
               /\ frame' = [frame EXCEPT ![t].locals = [l EXCEPT !.i = @ + 1]]
          ELSE /\ pc' = pc
               /\ ret' = ret
               /\ frame' = [frame EXCEPT ![t].locals = l]
    /\ fs' = AfterScan(fs, GlobListed(fs, frame[t].locals.glob))
    /\ UNCHANGED <<lock, max_history_size, reqVars, sysVars, cacheVars, now,
                   arg, tmp, grsVars, calls, recorded, sampled, glVars,
                   mount>>

\* sum(1 for atime in access_times if now - atime < timedelta(days=7))
RecentAccess_Inclusive(access_times, at) ==
    Len(SelectSeq(access_times, LAMBDA atime : ~AgeMore(at, atime, RecentDays * Day)))

RecentAccess(access_times, at) ==
    Len(SelectSeq(access_times, LAMBDA atime : AgeLess(at, atime, RecentDays * Day)))

\* sum(1 for atime in access_times if now - atime > timedelta(days=30))
OldAccess(access_times, at) ==
    Len(SelectSeq(access_times, LAMBDA atime : AgeMore(at, atime, OldDays * Day)))

\* (recent_access / total_files * 100) if total_files > 0 else 0
AccessEfficiency(recent_access, total_files) ==
    IF total_files > 0 THEN Mul(Div(recent_access, total_files), 100) ELSE Zero

\* now = datetime.now(), the analysis of the access times, and the return
EffReturn(t) ==
    /\ Goto(t, "eff_loop", "eff_exit")
    /\ frame[t].locals.i > Len(CategoryOrder)
    /\ LET l == frame[t].locals
           recent_access == RecentAccess(l.access_times, DatetimeNow)
           old_access == OldAccess(l.access_times, DatetimeNow)
       IN /\ frame' = [frame EXCEPT ![t].locals.now = DatetimeNow]
          /\ ret' = [ret EXCEPT ![t] = Returned("get_cache_efficiency",
                    [total_size          |-> l.total_size,
                     total_files         |-> l.total_files,
                     recent_access_count |-> recent_access,
                     old_access_count    |-> old_access,
                     access_efficiency   |-> AccessEfficiency(recent_access,
                                                              l.total_files),
                     last_updated        |-> IsoFormat(DatetimeNow)])]
    /\ UNCHANGED <<lock, max_history_size, reqVars, sysVars, cacheVars, now,
                   arg, tmp, grsVars, calls, recorded, sampled, glVars, fs,
                   mount>>

EffExit(t) == ScanExit(t, "eff_exit")

\* ------------------------------------------------------------------- init

\* MetricsCollector.__init__ with max_history_size = c
NewCollector(c) ==
    /\ lock = NoThread
    /\ pc = [t \in Threads |-> IF t = Sampler THEN "bg_loop" ELSE "idle"]
    /\ max_history_size = c
    /\ request_history = <<>>
    /\ request_counts = <<>>
    /\ response_times = <<>>
    /\ bytes_transferred = <<>>
    /\ system_history = <<>>
    /\ last_disk_io = NoCounters
    /\ last_network_io = NoCounters
    /\ cache_hit_count = 0
    /\ cache_miss_count = 0
    /\ total_requests = 0
    /\ now = 0
    /\ arg = [t \in Threads |-> None]
    /\ tmp = [t \in Threads |-> None]
    /\ cutoff_time = [t \in Threads |-> None]
    /\ recent_requests = [t \in Threads |-> <<>>]
    /\ it = [t \in Threads |-> 0]
    /\ ret = [t \in Threads |-> NoRet]
    /\ calls = NoCalls
    /\ recorded = <<>>
    /\ sampled = <<>>
    /\ frame = [t \in Threads |-> NoFrame]

\* a collector built directly; the module global is still None
InitWith(c) ==
    /\ NewCollector(c)
    /\ metrics_collector = 0
    /\ created = 0
    /\ collector = [t \in Threads |-> 0]
    /\ focus = 0
    /\ others = <<>>
    /\ fs = NoTree
    /\ mount = "relatime"

\* ---------------------------------------------- cache counter workload

CacheNext ==
    \E t \in Callers :
        \/ RchCall(t) \/ RchAcquire(t) \/ RchLoadHit(t) \/ RchStoreHit(t)
        \/ RchLoadTotal(t) \/ RchStoreTotal(t) \/ RchRelease(t)
        \/ RcmCall(t) \/ RcmAcquire(t) \/ RcmLoadMiss(t) \/ RcmStoreMiss(t)
        \/ RcmLoadTotal(t) \/ RcmStoreTotal(t) \/ RcmRelease(t)
        \/ GcsCall(t) \/ GcsAcquire(t) \/ GcsHitRate(t) \/ GcsDict(t)
        \/ GcsRelease(t)

CacheInit == InitWith(2)

SpecCache == CacheInit /\ [][CacheNext]_vars

\* ------------------------------------------------------ request workload

RequestNext ==
    \/ Tick
    \/ \E t \in Callers :
        \/ RrCall(t) \/ RrAcquire(t) \/ RrAppend(t) \/ RrLoadCount(t)
        \/ RrStoreCount(t) \/ RrTimes(t) \/ RrLoadBytes(t) \/ RrStoreBytes(t)
        \/ RrRelease(t)
        \/ GrsCall(t) \/ GrsCutoff(t) \/ GrsAcquire(t) \/ GrsFilter(t)
        \/ GrsFilterEnd(t) \/ GrsStats(t) \/ GrsRelease(t)

RequestInit == \E c \in Capacities : InitWith(c)

SpecRequest == RequestInit /\ [][RequestNext]_vars

\* ------------------------------------------------------- sampler workload

\* one caller thread runs beside the sampler thread
SystemThreads == {"c1", Sampler}

\* the rounds of this workload read counters every time, or fail
SystemReadings == {r \in OSReadings : ~r.ok \/ r.disk_io # NoCounters}

\* rounds started so far, by the caller thread and by the sampler thread
Rounds == Invoked("_collect_system_metrics") + Invoked("collect_system_metrics")

SystemNext ==
    \/ BgLoop /\ Rounds < MaxCalls
    \/ BgSleep
    \/ \E t \in SystemThreads \ {Sampler} : CsmCall(t) /\ Rounds < MaxCalls
    \/ \E t \in SystemThreads :
        \/ CsmRead(t) /\ (pc'[t] = "csm_delta" => arg'[t] \in SystemReadings)
        \/ CsmDeltas(t) \/ CsmStoreDisk(t) \/ CsmStoreNet(t) \/ CsmMetrics(t)
        \/ CsmAcquire(t) \/ CsmAppend(t) \/ CsmRelease(t) \/ CsmExcept(t)

SystemInit == InitWith(2)

SpecSystem == SystemInit /\ [][SystemNext]_vars

\* ------------------------------------------------ sampler-only workload

\* the sampler thread is the only one that runs _collect_system_metrics;
\* a caller thread reads the statistics meanwhile
SamplerNext ==
    \/ BgLoop
    \/ BgSleep
    \/ CsmRead(Sampler) \/ CsmDeltas(Sampler) \/ CsmStoreDisk(Sampler)
    \/ CsmStoreNet(Sampler) \/ CsmMetrics(Sampler) \/ CsmAcquire(Sampler) \/ CsmAppend(Sampler)
    \/ CsmRelease(Sampler) \/ CsmExcept(Sampler)
    \/ \E t \in Callers :
        \/ GssCall(t) \/ GssAcquire(t) \/ GssStats(t) \/ GssRelease(t)

SamplerInit == InitWith(2)

SpecSampler == SamplerInit /\ [][SamplerNext]_vars

\* one step of the sampler thread
SamplerStep ==
    \/ BgLoop
    \/ BgSleep
    \/ CsmRead(Sampler) \/ CsmDeltas(Sampler) \/ CsmStoreDisk(Sampler)
    \/ CsmStoreNet(Sampler) \/ CsmMetrics(Sampler) \/ CsmAcquire(Sampler) \/ CsmAppend(Sampler)
    \/ CsmRelease(Sampler) \/ CsmExcept(Sampler)

\* the scheduler keeps running the sampler thread (psutil reads and sleeps
\* return), and a thread inside a `with self._lock:` block runs to its end
\* (every such step changes pc, so <<A>>_pc is <<A>>_vars)
SamplerFairness ==
    /\ WF_pc(SamplerStep)
    /\ \A t \in Callers : WF_pc(GssStats(t) \/ GssRelease(t))

SpecSamplerLive == SamplerInit /\ [][SamplerNext]_vars /\ SamplerFairness

\* --------------------------------------------- statistics over long runs

\* the sampler thread has run up to MaxSnapshots rounds before
MaxSnapshots == 11

\* SystemMetrics(...) as one round builds it from reading r and the baselines
SystemMetrics(r, ldisk, lnet, ts) ==
    [cpu_percent            |-> r.cpu_percent,
     memory_percent         |-> r.memory_percent,
     disk_usage_percent     |-> Mul(Div(r.disk_used, r.disk_total), 100),
     disk_read_bytes        |-> Delta(FirstOr0(r.disk_io), ldisk, 1),
     disk_write_bytes       |-> Delta(SecondOr0(r.disk_io), ldisk, 2),
     network_bytes_sent     |-> Delta(FirstOr0(r.net_io), lnet, 1),
     network_bytes_received |-> Delta(SecondOr0(r.net_io), lnet, 2),
     timestamp              |-> ts]

\* the collector after successful rounds with the readings rs, in order
RECURSIVE AfterTicks(_)
AfterTicks(rs) ==
    IF rs = <<>>
    THEN [history |-> <<>>, disk |-> NoCounters, net |-> NoCounters]
    ELSE LET before == AfterTicks(SubSeq(rs, 1, Len(rs) - 1))
             r == rs[Len(rs)]
         IN [history |-> DequeAppend(before.history,
                                     SystemMetrics(r, before.disk, before.net, 0),
                                     SystemHistoryMaxLen),
             disk |-> IF Truthy(r.disk_io) THEN r.disk_io ELSE before.disk,
             net  |-> IF Truthy(r.net_io) THEN r.net_io ELSE before.net]

\* the successful readings, in a fixed order
ReadingCycle ==
    LET WithCpu(c) == CHOOSE r \in OSReadings : r.ok /\ r.cpu_percent = c
    IN <<WithCpu(10), WithCpu(50), WithCpu(30)>>

\* n readings taken from the cycle, starting after position o
PastReadings(n, o) ==
    [i \in 1..n |-> ReadingCycle[((i + o) % Len(ReadingCycle)) + 1]]

\* a collector whose sampler thread has completed n rounds and sleeps
StatsInit ==
    \E n \in 0..MaxSnapshots, o \in 1..Len(ReadingCycle) :
        LET rs == PastReadings(n, o)
            past == AfterTicks(rs)
        IN /\ lock = NoThread
           /\ pc = [t \in Threads |-> IF t = Sampler THEN "bg_loop" ELSE "idle"]
           /\ max_history_size = 2
           /\ request_history = <<>>
           /\ request_counts = <<>>
           /\ response_times = <<>>
           /\ bytes_transferred = <<>>
           /\ system_history = past.history
           /\ last_disk_io = past.disk
           /\ last_network_io = past.net
           /\ cache_hit_count = 0
           /\ cache_miss_count = 0
           /\ total_requests = 0
           /\ now = 0
           /\ arg = [t \in Threads |-> None]
           /\ tmp = [t \in Threads |-> None]
           /\ cutoff_time = [t \in Threads |-> None]
           /\ recent_requests = [t \in Threads |-> <<>>]
           /\ it = [t \in Threads |-> 0]
           /\ ret = [t \in Threads |-> NoRet]
           /\ calls = NoCalls
           /\ recorded = <<>>
           /\ sampled = rs
           /\ frame = [t \in Threads |-> NoFrame]
           /\ metrics_collector = 0
           /\ created = 0
           /\ collector = [t \in Threads |-> 0]
           /\ focus = 0
           /\ others = <<>>
           /\ fs = NoTree
           /\ mount = "relatime"

SpecStats == StatsInit /\ [][SamplerNext]_vars

\* ----------------------------------------------- module-level singleton

SingletonNext ==
    \E t \in Callers :
        \/ GmcCall(t) \/ GmcCheck(t) \/ GmcConstruct(t) \/ GmcAssign(t)
        \/ GmcReturn(t) \/ GmcExit(t)

\* the module has been imported: _metrics_collector = None
SingletonInit == InitWith(2)

SpecSingleton == SingletonInit /\ [][SingletonNext]_vars

\* ------------------------------------------- module-level cache workload

\* the callers record cache lookups through the module-level functions and
\* ask for the global collector, starting before it exists
ModuleCacheNext ==
    \E t \in Callers :
        \/ RecordCacheHit(t) \/ RecordCacheMiss(t) \/ GmcCall(t)
        \/ GmcCheck(t) \/ GmcConstruct(t) \/ GmcAssign(t) \/ GmcReturn(t)
        \/ GmcExit(t)
        \/ RchAcquire(t) \/ RchLoadHit(t) \/ RchStoreHit(t) \/ RchLoadTotal(t)
        \/ RchStoreTotal(t) \/ RchRelease(t)
        \/ RcmAcquire(t) \/ RcmLoadMiss(t) \/ RcmStoreMiss(t) \/ RcmLoadTotal(t)
        \/ RcmStoreTotal(t) \/ RcmRelease(t)

\* --------------------------------------------------- middleware workload

MiddlewareNext ==
    \E t \in Callers :
        \/ MwCall(t) \/ MwStart(t) \/ MwCallNext(t) \/ MwMeasure(t)
        \/ MwRecord(t) \/ GmcCheck(t) \/ GmcReturn(t) \/ RrmMetrics(t)
        \/ RrAcquire(t) \/ RrAppend(t) \/ RrLoadCount(t) \/ RrStoreCount(t)
        \/ RrTimes(t) \/ RrLoadBytes(t) \/ RrStoreBytes(t) \/ RrRelease(t)
        \/ MwExcept(t) \/ MwReturn(t) \/ MwExit(t)

\* the application is serving requests; the global collector exists
MiddlewareInit ==
    /\ NewCollector(DefaultMaxHistorySize)
    /\ metrics_collector = 1
    /\ created = 1
    /\ collector = [t \in Threads |-> 0]
    /\ focus = 1
    /\ others = <<>>
    /\ fs = NoTree
    /\ mount = "relatime"

SpecMiddleware == MiddlewareInit /\ [][MiddlewareNext]_vars

\* ------------------------------------------------------- export workload

\* one thread exports while another records cache lookups and requests
Exporter == "c1"
Recorder == "c2"

ExportNext ==
    \/ ExpCall(Exporter) \/ ExpRequest(Exporter) \/ ExpSystem(Exporter)
    \/ ExpCache(Exporter) \/ ExpJoin(Exporter) \/ ExpExit(Exporter)
    \/ GrsCutoff(Exporter) \/ GrsAcquire(Exporter) \/ GrsFilter(Exporter)
    \/ GrsFilterEnd(Exporter) \/ GrsStats(Exporter) \/ GrsRelease(Exporter)
    \/ GssAcquire(Exporter) \/ GssStats(Exporter) \/ GssRelease(Exporter)
    \/ GcsAcquire(Exporter) \/ GcsHitRate(Exporter) \/ GcsDict(Exporter)
    \/ GcsRelease(Exporter)
    \/ RchCall(Recorder) \/ RchAcquire(Recorder) \/ RchLoadHit(Recorder)
    \/ RchStoreHit(Recorder) \/ RchLoadTotal(Recorder)
    \/ RchStoreTotal(Recorder) \/ RchRelease(Recorder)
    \/ RcmCall(Recorder) \/ RcmAcquire(Recorder) \/ RcmLoadMiss(Recorder)
    \/ RcmStoreMiss(Recorder) \/ RcmLoadTotal(Recorder)
    \/ RcmStoreTotal(Recorder) \/ RcmRelease(Recorder)
    \/ RrCall(Recorder) \/ RrAcquire(Recorder) \/ RrAppend(Recorder)
    \/ RrLoadCount(Recorder) \/ RrStoreCount(Recorder) \/ RrTimes(Recorder)
    \/ RrLoadBytes(Recorder) \/ RrStoreBytes(Recorder) \/ RrRelease(Recorder)

\* the sampler thread has completed up to ExportSnapshots rounds
ExportSnapshots == 1

\* a new collector, or one whose sampler thread has completed some rounds
ExportInit ==
    \E n \in 0..ExportSnapshots, o \in 1..Len(ReadingCycle) :
        LET rs == PastReadings(n, o)
            past == AfterTicks(rs)
        IN /\ lock = NoThread
           /\ pc = [t \in Threads |-> IF t = Sampler THEN "bg_loop" ELSE "idle"]
           /\ max_history_size = 2
           /\ request_history = <<>>
           /\ request_counts = <<>>
           /\ response_times = <<>>
           /\ bytes_transferred = <<>>
           /\ system_history = past.history
           /\ last_disk_io = past.disk
           /\ last_network_io = past.net
           /\ cache_hit_count = 0
           /\ cache_miss_count = 0
           /\ total_requests = 0
           /\ now = 0
           /\ arg = [t \in Threads |-> None]
           /\ tmp = [t \in Threads |-> None]
           /\ cutoff_time = [t \in Threads |-> None]
           /\ recent_requests = [t \in Threads |-> <<>>]
           /\ it = [t \in Threads |-> 0]
           /\ ret = [t \in Threads |-> NoRet]
           /\ calls = NoCalls
           /\ recorded = <<>>
           /\ sampled = rs
           /\ frame = [t \in Threads |-> NoFrame]
           /\ metrics_collector = 0
           /\ created = 0
           /\ collector = [t \in Threads |-> 0]
           /\ focus = 0
           /\ others = <<>>
           /\ fs = NoTree
           /\ mount = "relatime"

SpecExport == ExportInit /\ [][ExportNext]_vars

\* ---------------------------------------------------------- lock workload

\* `with self._lock:` of any operation, by thread t
TakeLock(t) ==
    \/ RchAcquire(t) \/ RcmAcquire(t) \/ RrAcquire(t) \/ GrsAcquire(t)
    \/ GssAcquire(t) \/ GcsAcquire(t) \/ CsmAcquire(t)

\* any other statement of an operation thread t has started
RunOn(t) ==
    \/ RchLoadHit(t) \/ RchStoreHit(t) \/ RchLoadTotal(t) \/ RchStoreTotal(t)
    \/ RchRelease(t)
    \/ RcmLoadMiss(t) \/ RcmStoreMiss(t) \/ RcmLoadTotal(t)
    \/ RcmStoreTotal(t) \/ RcmRelease(t)
    \/ RrAppend(t) \/ RrLoadCount(t) \/ RrStoreCount(t) \/ RrTimes(t)
    \/ RrLoadBytes(t) \/ RrStoreBytes(t) \/ RrRelease(t)
    \/ GrsCutoff(t) \/ GrsFilter(t) \/ GrsFilterEnd(t) \/ GrsStats(t)
    \/ GrsRelease(t)
    \/ GssStats(t) \/ GssRelease(t)
    \/ GcsHitRate(t) \/ GcsDict(t) \/ GcsRelease(t)
    \/ ExpRequest(t) \/ ExpSystem(t) \/ ExpCache(t) \/ ExpJoin(t)
    \/ ExpExit(t)
    \/ CsmRead(t) /\ (pc'[t] = "csm_delta" => arg'[t] = ReadingCycle[1])
    \/ CsmDeltas(t) \/ CsmStoreDisk(t) \/ CsmStoreNet(t) \/ CsmMetrics(t)
    \/ CsmAppend(t) \/ CsmRelease(t) \/ CsmExcept(t)

\* a caller thread starts any operation of the store; the values recorded
\* do not matter to the lock, so a request is always the same one
StartOp(t) ==
    \/ RchCall(t) \/ RcmCall(t)
    \/ RrCall(t) /\ arg'[t].status_code = 404 /\ arg'[t].timestamp = 0
    \/ GrsCall(t) /\ arg'[t] = AnInt(1)
    \/ GssCall(t) \/ GcsCall(t) \/ ExpCall(t)

\* the caller threads run any operations beside the sampler thread
\* the operations and rounds the caller threads and the sampler thread have
\* started, and how many they start together at most
Started == NCalls + Invoked("collect_system_metrics")
LockOps == MaxCalls - 1

LockNext ==
    \/ BgLoop /\ Started < LockOps
    \/ BgSleep
    \/ \E t \in Callers : StartOp(t) /\ Started < LockOps
    \/ \E t \in Threads : TakeLock(t) \/ RunOn(t)

LockInit == InitWith(2)

SpecLock == LockInit /\ [][LockNext]_vars

\* one step of thread t
StepOf(t) ==
    \/ TakeLock(t)
    \/ RunOn(t)
    \/ t = Sampler /\ (BgSleep \/ (BgLoop /\ Started < LockOps))

\* fair scheduling: a thread that stays able to run its next statement runs
\* it; for a thread waiting at `with self._lock:` that is when the lock
\* stays free.  Every step of a thread changes its pc or the position of
\* its iteration.
LockFairness == \A t \in Threads : WF_<<pc, it>>(StepOf(t))

SpecLockLive == LockInit /\ [][LockNext]_vars /\ LockFairness

\* -------------------------------------------------------- scrape workload

\* more than the export window passes while nothing else happens
HourPasses ==
    /\ now <= MaxTime
    /\ now' = now + ExportWindow + 1
    /\ UNCHANGED <<lock, pc, max_history_size, reqVars, sysVars, cacheVars,
                   arg, tmp, grsVars, ret, calls, recorded,
                   sampled, frame, glVars, fs, mount>>

\* the statements of export_prometheus_metrics and of the readers it calls
ExportSteps(t) ==
    \/ ExpRequest(t) \/ ExpSystem(t) \/ ExpCache(t) \/ ExpJoin(t) \/ ExpExit(t)
    \/ GrsCutoff(t) \/ GrsAcquire(t) \/ GrsFilter(t) \/ GrsFilterEnd(t)
    \/ GrsStats(t) \/ GrsRelease(t)
    \/ GssAcquire(t) \/ GssStats(t) \/ GssRelease(t)
    \/ GcsAcquire(t) \/ GcsHitRate(t) \/ GcsDict(t) \/ GcsRelease(t)

\* one thread exports; the other records requests and, once the first has
\* its text, exports too: its export is the later of two successive exports
ScrapeNext ==
    \/ Tick
    \/ HourPasses
    \/ ExpCall(Exporter)
    \/ ExportSteps(Exporter)
    \/ ExpCall(Recorder) /\ pc[Exporter] = "exp_exit"
    \/ ExportSteps(Recorder)
    \/ RrCall(Recorder) \/ RrAcquire(Recorder) \/ RrAppend(Recorder)
    \/ RrLoadCount(Recorder) \/ RrStoreCount(Recorder) \/ RrTimes(Recorder)
    \/ RrLoadBytes(Recorder) \/ RrStoreBytes(Recorder) \/ RrRelease(Recorder)

ScrapeInit == \E c \in Capacities : InitWith(c)

SpecScrape == ScrapeInit /\ [][ScrapeNext]_vars

\* ------------------------------------------------------ overview workload

\* a collector that is not used, beside a cache tree
Mounted(tree, m) ==
    /\ NewCollector(DefaultMaxHistorySize)
    /\ metrics_collector = 0
    /\ created = 0
    /\ collector = [t \in Threads |-> 0]
    /\ focus = 0
    /\ others = <<>>
    /\ fs = tree
    /\ mount = m

InventoryInit(tree) == \E m \in Mounts : Mounted(tree, m)

\* the mounts that differ on a tree whose entries were all last accessed
\* more than a day ago (there relatime does what strictatime does)
OldTreeMounts == {"noatime", "relatime"}

OldTreeInit(tree) == \E m \in OldTreeMounts : Mounted(tree, m)

\* names of organisations, repositories and files
org_a == <<97>>
org_B == <<66>>
repo_x == <<120>>
repo_Y == <<89>>
file_f == <<102>>
file_n == <<110>>
sub == <<115, 117, 98>>

Dir(path) == Entry(path, "dir", 0, Epoch, Epoch, <<>>)

\* a file of `size` bytes that no scan reads
File(path, size) == Entry(path, "file", size, Epoch, Epoch, [i \in 1..size |-> 0])

\* a file with the given bytes
TextFile(path, data) == Entry(path, "file", Len(data), Epoch, Epoch, data)

\* an entry the process may not open, or list and search (chmod 000)
Closed(e) == [e EXCEPT !.readable = FALSE]

\* an entry whose mode or name was changed at time ctime
Changed(e, ctime) == [e EXCEPT !.ctime = ctime]

\* what the trees of the overview workload are made of: repositories, plain
\* files at the organisation and repository levels, a deeper directory, an
\* empty category, entries of the flat categories, a plain file where a
\* category directory is expected, and an organisation directory the
\* process may not list
OverviewEntries ==
    {Dir(repos_path),
     File(repos_path \o <<lfs>>, 1),
     Closed(Dir(repos_path \o <<api, models, org_a>>)),
     Dir(repos_path \o <<api, models, org_B, repo_Y>>),
     Dir(repos_path \o <<api, models, org_a, repo_x>>),
     File(repos_path \o <<api, models, org_a, repo_x, file_f>>, 2),
     File(repos_path \o <<api, models, org_a, file_n>>, 1),
     File(repos_path \o <<api, models, file_n>>, 1),
     Dir(repos_path \o <<api, models, org_a, repo_x, sub>>),
     Dir(repos_path \o <<api, models, org_B>>),
     Dir(repos_path \o <<api, datasets, org_B, repo_Y>>),
     Dir(repos_path \o <<api, spaces>>),
     File(repos_path \o <<files, file_f>>, 3),
     Dir(repos_path \o <<lfs, org_a, repo_x>>)}

\* the trees hold at most MaxEntries made entries
MaxEntries == 3

OverviewNext ==
    \/ OvCall(Scanner) \/ OvCategory(Scanner) \/ OvCount(Scanner)
    \/ OvRepos(Scanner) \/ OvReturn(Scanner) \/ OvExit(Scanner)

OverviewInit == \E tree \in TreesOf(OverviewEntries, MaxEntries) : InventoryInit(tree)

SpecOverview == OverviewInit /\ [][OverviewNext]_vars

\* -------------------------------------------------- repositories workload

\* README.md
README_md == readme_files[1]

\* what the trees of the repositories workload are made of: repositories
\* whose sizes, times and names tie or differ, a README whose text is not in
\* any name, a plain file beside the repositories, and two directory levels
\* below the files category
RepoEntries ==
    {Entry(repos_path \o <<api, models, org_a, repo_x>>, "dir", 0, Time(5, 0), Time(5, 0), <<>>),
     Entry(repos_path \o <<api, models, org_a, repo_Y>>, "dir", 0, Time(5, 250000), Time(6, 0), <<>>),
     Entry(repos_path \o <<api, models, org_B, repo_x>>, "dir", 0, Time(4, 0), Time(5, 0), <<>>),
     Entry(repos_path \o <<api, datasets, org_a, repo_x>>, "dir", 0, Time(5, 0), Time(5, 0), <<>>),
     Dir(repos_path \o <<files, org_a, repo_x>>),
     File(repos_path \o <<api, models, org_a, repo_x, file_f>>, 2),
     File(repos_path \o <<api, models, org_a, file_n>>, 1),
     TextFile(repos_path \o <<api, models, org_B, repo_x, README_md>>, <<90, 113>>)}

ReposNext ==
    \/ GcrCall(Scanner) \/ GcrScan(Scanner) \/ GcrSort(Scanner)
    \/ GcrLimit(Scanner) \/ GcrReturn(Scanner) \/ GcrExit(Scanner)
    \/ SrCall(Scanner) \/ SrFilter(Scanner) \/ SrExit(Scanner)

\* every tree on a mount that keeps the access times, the trees of one entry
\* less on a mount where the scans set them
ReposInit ==
    \/ \E tree \in TreesOf(RepoEntries, MaxEntries) : Mounted(tree, "noatime")
    \/ \E tree \in TreesOf(RepoEntries, MaxEntries - 1) : Mounted(tree, "relatime")

SpecRepos == ReposInit /\ [][ReposNext]_vars

\* ---------------------------------------------------- inventory workload

\* an hour, and half an hour, before the collector was built
HourAgo == Time(ClockStart - 3600, 0)
HalfAnHourAgo == Time(ClockStart - 1800, 0)

\* what the trees of the inventory workload are made of: repositories in the
\* three repository categories and in the files category, and a plain file
\* beside a repository.  The datasets and the spaces repository were listed
\* an hour ago, after their last modification; the mode of the datasets
\* repository was changed since
InventoryEntries ==
    {Dir(repos_path \o <<api, models, org_a, repo_x>>),
     Dir(repos_path \o <<api, models, org_B, repo_Y>>),
     Changed(Entry(repos_path \o <<api, datasets, org_a, repo_x>>, "dir", 0,
                   HourAgo, Epoch, <<>>), HalfAnHourAgo),
     Entry(repos_path \o <<api, spaces, org_a, repo_x>>, "dir", 0, HourAgo,
           Epoch, <<>>),
     Dir(repos_path \o <<files, org_a, repo_x>>),
     File(repos_path \o <<api, models, org_a, file_n>>, 1)}

\* the thread that scans the same tree afterwards
SecondScanner == "c2"

\* get_cached_repos(repo_type=c) for a repository category c
OneCategory(a) ==
    /\ a.repo_type \in {Some("models"), Some("datasets"), Some("spaces")}
    /\ a.limit = None

\* get_cached_repos(sort_by=..., sort_order=...), by size or by name
EveryCategory(a) ==
    /\ a.repo_type = None
    /\ a.limit = None
    /\ a.sort_by \in {"size", "name"}

\* one thread takes the overview or the list of one category; when it has
\* its result, the other lists one category or all of them
InventoryNext ==
    \/ OvCall(Scanner) /\ pc[SecondScanner] = "idle"
    \/ OvCategory(Scanner) \/ OvCount(Scanner) \/ OvRepos(Scanner)
    \/ OvReturn(Scanner) \/ OvExit(Scanner)
    \/ GcrCall(Scanner) /\ pc[SecondScanner] = "idle" /\ OneCategory(arg'[Scanner])
    \/ GcrCall(SecondScanner)
          /\ pc[Scanner] \in {"ov_exit", "gcr_exit"}
          /\ IF pc[Scanner] = "ov_exit" THEN OneCategory(arg'[SecondScanner])
             ELSE EveryCategory(arg'[SecondScanner])
    \/ \E t \in {Scanner, SecondScanner} :
          \/ GcrScan(t) \/ GcrSort(t) \/ GcrLimit(t) \/ GcrReturn(t)
          \/ GcrExit(t)

\* every tree on a mount that keeps the access times, the trees of one entry
\* less on a mount where the scans set them
InventoryTrees ==
    \/ \E tree \in TreesOf(InventoryEntries, MaxEntries) : Mounted(tree, "noatime")
    \/ \E tree \in TreesOf(InventoryEntries, MaxEntries - 1) : Mounted(tree, "relatime")

SpecInventory == InventoryTrees /\ [][InventoryNext]_vars

\* ---------------------------------------------- unreadable-tree workload

\* chmod 000 on the entries at the paths `locked`
Chmod000(tree, locked) ==
    [i \in 1..Len(tree) |->
        IF tree[i].path \in locked
        THEN [tree[i] EXCEPT !.readable = FALSE]
        ELSE tree[i]]

\* what the trees of this workload are made of: repositories of two
\* organisations and two categories, one of them with a file
DeniedEntries ==
    {Dir(repos_path \o <<api, models, org_a, repo_x>>),
     Dir(repos_path \o <<api, models, org_B, repo_Y>>),
     Dir(repos_path \o <<api, datasets, org_a, repo_x>>),
     File(repos_path \o <<api, models, org_a, repo_x, file_f>>, 2)}

\* the directories that may be closed to the process: an organisation, a
\* category and a repository
Locks ==
    {repos_path \o <<api, models, org_a>>, repos_path \o <<api, datasets>>, repos_path \o <<api, models, org_B, repo_Y>>}

DeniedInit ==
    \E tree \in TreesOf(DeniedEntries, MaxEntries), locked \in SUBSET Locks :
        OldTreeInit(Chmod000(tree, locked))

SpecDenied == DeniedInit /\ [][ReposNext]_vars

\* ------------------------------------------------------- details workload

\* 'ref: refs/heads/m' and a line end
HeadOfBranch_m == RefsHeads \o <<109, 10>>

\* what the trees of the details workload are made of: a repository with a
\* file, a git HEAD and a README, a plain file beside it, an organisation
\* without repositories, a category without organisations, a bare root
DetailEntries ==
    {Dir(repos_path),
     Dir(repos_path \o <<api, datasets>>),
     Dir(repos_path \o <<api, models, org_B>>),
     Dir(repos_path \o <<api, models, org_a, repo_x>>),
     File(repos_path \o <<api, models, org_a, repo_x, file_f>>, 2),
     File(repos_path \o <<api, models, org_a, file_n>>, 1),
     TextFile(repos_path \o <<api, models, org_a, repo_x, dot_git, HEAD>>, HeadOfBranch_m),
     TextFile(repos_path \o <<api, models, org_a, repo_x, README_md>>, <<32, 90, 113, 10>>)}

DetailsNext ==
    \/ GrdCall(Scanner) \/ GrdCategory(Scanner) \/ GrdPath(Scanner)
    \/ GrdInfo(Scanner) \/ GrdExit(Scanner)

\* readme.md
readme_md == readme_files[2]

\* bytes that are no UTF-8 text
NotUtf8 == <<255, 254>>

\* the HEAD files of the repository a/x: a branch with a line end of one
\* character and of two, a commit hash between no-break spaces, bytes that
\* cannot be decoded, a file that cannot be opened, and a directory
Heads ==
    LET head_file == repos_path \o <<api, models, org_a, repo_x, dot_git, HEAD>>
    IN {TextFile(head_file, HeadOfBranch_m),
        TextFile(head_file, RefsHeads \o <<109, 13, 10>>),
        TextFile(head_file, <<194, 160, 100, 101, 97, 100, 98, 101, 101, 102, 48,
                              49, 194, 160>>),
        TextFile(head_file, NotUtf8),
        Closed(TextFile(head_file, HeadOfBranch_m)),
        Dir(head_file)}

\* its README.md files: a text between an ideographic space, an em space
\* and a next-line character, bytes that cannot be decoded, a file that
\* cannot be opened, and a directory
Readmes ==
    LET readme_path == repos_path \o <<api, models, org_a, repo_x, README_md>>
    IN {TextFile(readme_path, <<227, 128, 128, 90, 113, 226, 128, 131, 194, 133>>),
        TextFile(readme_path, NotUtf8),
        Closed(TextFile(readme_path, <<90, 113>>)),
        Dir(readme_path)}

\* 'second'
SecondReadme == <<115, 101, 99, 111, 110, 100>>

\* the trees of the repository a/x with a HEAD, a README.md and a readme.md
FileTrees ==
    {Create(Create(Create(NoTree, head), readme),
            TextFile(repos_path \o <<api, models, org_a, repo_x, readme_md>>, SecondReadme)) :
        head \in Heads, readme \in Readmes}

\* the trees of at most MaxEntries of the entries on a mount that keeps the
\* access times, those of one entry less on a mount where the scans set
\* them, and the trees of files that cannot all be read
DetailsInit ==
    \/ \E tree \in TreesOf(DetailEntries, MaxEntries) : Mounted(tree, "noatime")
    \/ \E tree \in TreesOf(DetailEntries, MaxEntries - 1) : Mounted(tree, "relatime")
    \/ \E tree \in FileTrees : Mounted(tree, "relatime")

SpecDetails == DetailsInit /\ [][DetailsNext]_vars

\* ---------------------------------------------------- efficiency workload

\* a file last accessed at the given time
FileAt(path, atime) == Entry(path, "file", 1, atime, Epoch, <<0>>)

\* what the trees of the efficiency workload are made of: files of several
\* categories last accessed a day ago, a microsecond less than 7 days ago,
\* exactly 7 days ago, exactly 30 days ago and a microsecond
\* more than 30 days ago, a file outside every category, an empty category,
\* an organisation directory the process may not list, and a plain file
\* where a category directory is expected
EfficiencyEntries ==
    {FileAt(repos_path \o <<api, models, org_a, repo_x, file_f>>, Time(39 * Day, 0)),
     FileAt(repos_path \o <<api, models, org_a, repo_x, file_n>>, Time(33 * Day, 1)),
     FileAt(repos_path \o <<api, datasets, file_f>>, Time(33 * Day, 0)),
     FileAt(repos_path \o <<files, file_n>>, Time(10 * Day, 0)),
     FileAt(repos_path \o <<lfs, file_f>>, Time(10 * Day - 1, 999999)),
     FileAt(repos_path \o <<api, file_n>>, Time(39 * Day, 0)),
     Dir(repos_path \o <<api, spaces>>),
     Closed(Dir(repos_path \o <<api, models, org_a>>)),
     File(repos_path \o <<lfs>>, 1)}

\* the scans of one thread, while the clock goes on
EfficiencyNext ==
    \/ EffCall(Scanner) \/ EffSize(Scanner) \/ EffCount(Scanner)
    \/ EffAtimes(Scanner) \/ EffReturn(Scanner) \/ EffExit(Scanner)
    \/ Tick

\* the trees of one entry less than MaxEntries (the proxy layer stores
\* more), on a mount where the scans set the access times
EfficiencyInit ==
    \E tree \in TreesOf(EfficiencyEntries, MaxEntries - 1) : Mounted(tree, "relatime")

\* the paths of the files the proxy layer stores
ProxyPaths ==
    {repos_path \o <<api, models, org_a, repo_x, file_f>>,
     repos_path \o <<api, models, file_n>>,
     repos_path \o <<files, file_f>>}

\* the tree after a file of one byte was written at path p at time `when`:
\* the file and the directories made for it have that time, and the
\* directory that got a new entry was modified then
Stored(tree, p, when) ==
    LET made == Create(tree, Entry(p, "file", 1, when, when, <<0>>))
        new == PathsOf(made) \ PathsOf(tree)
    IN [i \in 1..Len(made) |->
           IF made[i].path \in new
           THEN [made[i] EXCEPT !.atime = when, !.mtime = when, !.ctime = when]
           ELSE IF \E q \in new : Parent(q) = made[i].path
           THEN [made[i] EXCEPT !.mtime = when, !.ctime = when]
           ELSE made[i]]

\* the tree after its k-th entry was removed at time `when`: the directory
\* that lost the entry was modified then
Evicted(tree, k, when) ==
    LET rest == SubSeq(tree, 1, k - 1) \o SubSeq(tree, k + 1, Len(tree))
    IN [i \in 1..Len(rest) |->
           IF rest[i].path = Parent(tree[k].path)
           THEN [rest[i] EXCEPT !.mtime = when, !.ctime = when]
           ELSE rest[i]]

\* the proxy layer stores a file in the cache
ProxyStore ==
    /\ Writes < MaxWrites
    /\ \E p \in ProxyPaths :
          /\ ~Has(fs, p)
          /\ ~UnderFile(fs, p)
          /\ fs' = Stored(fs, p, DatetimeNow)
    /\ calls' = [calls EXCEPT !["proxy.store"] = @ + 1]
    /\ UNCHANGED <<lock, pc, max_history_size, reqVars, sysVars, cacheVars, now,
                   arg, tmp, grsVars, ret, recorded, sampled, frame, glVars,
                   mount>>

\* the proxy layer evicts a file from the cache
ProxyEvict ==
    /\ Writes < MaxWrites
    /\ \E k \in 1..Len(fs) :
          /\ fs[k].kind = "file"
          /\ fs' = Evicted(fs, k, DatetimeNow)
    /\ calls' = [calls EXCEPT !["proxy.evict"] = @ + 1]
    /\ UNCHANGED <<lock, pc, max_history_size, reqVars, sysVars, cacheVars, now,
                   arg, tmp, grsVars, ret, recorded, sampled, frame, glVars,
                   mount>>

\* a scan while the proxy layer stores and evicts files
BusyCacheNext == EfficiencyNext \/ ProxyStore \/ ProxyEvict

SpecEfficiency == EfficiencyInit /\ [][BusyCacheNext]_vars

\* no cache root, an empty one, and a cache of one file accessed a day ago
BusyCacheInit ==
    \E tree \in {NoTree, Create(NoTree, Dir(repos_path)),
                 Create(NoTree, FileAt(repos_path \o <<api, models, org_a, repo_x, file_n>>,
                                       Time(39 * Day, 0)))} :
        InventoryInit(tree)

SpecBusyCache == BusyCacheInit /\ [][BusyCacheNext]_vars

\* ----------------------------------------------------- recording workload

\* the callers record cache hits, cache misses and requests side by side
RecordNext ==
    \E t \in Callers :
        \/ RchCall(t) \/ RchAcquire(t) \/ RchLoadHit(t) \/ RchStoreHit(t)
        \/ RchLoadTotal(t) \/ RchStoreTotal(t) \/ RchRelease(t)
        \/ RcmCall(t) \/ RcmAcquire(t) \/ RcmLoadMiss(t) \/ RcmStoreMiss(t)
        \/ RcmLoadTotal(t) \/ RcmStoreTotal(t) \/ RcmRelease(t)
        \/ RrCall(t) \/ RrAcquire(t) \/ RrAppend(t) \/ RrLoadCount(t)
        \/ RrStoreCount(t) \/ RrTimes(t) \/ RrLoadBytes(t) \/ RrStoreBytes(t)
        \/ RrRelease(t)

RecordInit == InitWith(2)

SpecRecord == RecordInit /\ [][RecordNext]_vars

\* ------------------------------------------------- long-running workload

\* the k-th request of a collector that has been recording "GET /a" for a
\* while: its response time is k
PastRequest(k) ==
    [method |-> "GET", path |-> "/a", status_code |-> 200, response_time |-> k,
     bytes_sent |-> 0, bytes_received |-> 0, timestamp |-> 0]

PastRequests(n) == [k \in 1..n |-> PastRequest(k)]

\* the response-time list l after the metrics past[i..j] were recorded, one
\* after the other (the list after the first half is never empty: the test
\* makes it be computed before the second half is begun)
RECURSIVE TimesFrom(_, _, _, _)
TimesFrom(l, past, i, j) ==
    IF i > j THEN l
    ELSE IF i = j THEN TrackResponseTime(l, past[i].response_time)
    ELSE LET m == (i + j) \div 2
             half == TimesFrom(l, past, i, m)
         IN IF half = <<>> THEN half ELSE TimesFrom(half, past, m + 1, j)

TimesAfter(past) == TimesFrom(<<>>, past, 1, Len(past))

\* numbers of requests recorded before the run: none, and around the length
\* at which the list is trimmed
TrimStarts ==
    {0, ResponseTimesTrimAbove - 1, ResponseTimesTrimAbove,
     ResponseTimesTrimAbove + 1}

\* the calls of record_request of one run
TrimCalls == 2

\* a collector of capacity 2 after n calls of record_request
TrimInit ==
    \E n \in TrimStarts :
        /\ lock = NoThread
        /\ pc = [t \in Threads |-> IF t = Sampler THEN "bg_loop" ELSE "idle"]
        /\ max_history_size = 2
        /\ request_history = LastN(PastRequests(n), 2)
        /\ request_counts = IF n = 0 THEN <<>> ELSE Put(<<>>, "GET /a", n)
        /\ response_times =
              IF n = 0 THEN <<>> ELSE Put(<<>>, "GET /a", TimesAfter(PastRequests(n)))
        /\ bytes_transferred = IF n = 0 THEN <<>> ELSE Put(<<>>, "GET /a", 0)
        /\ system_history = <<>>
        /\ last_disk_io = NoCounters
        /\ last_network_io = NoCounters
        /\ cache_hit_count = 0
        /\ cache_miss_count = 0
        /\ total_requests = 0
        /\ now = 0
        /\ arg = [t \in Threads |-> None]
        /\ tmp = [t \in Threads |-> None]
        /\ cutoff_time = [t \in Threads |-> None]
        /\ recent_requests = [t \in Threads |-> <<>>]
        /\ it = [t \in Threads |-> 0]
        /\ ret = [t \in Threads |-> NoRet]
        /\ calls = [NoCalls EXCEPT !["record_request"] = MaxCalls - TrimCalls]
        /\ recorded = PastRequests(n)
        /\ sampled = <<>>
        /\ frame = [t \in Threads |-> NoFrame]
        /\ metrics_collector = 0
        /\ created = 0
        /\ collector = [t \in Threads |-> 0]
        /\ focus = 0
        /\ others = <<>>
        /\ fs = NoTree
        /\ mount = "relatime"

TrimNext ==
    \/ RrCall(Recorder) \/ RrAcquire(Recorder) \/ RrAppend(Recorder)
    \/ RrLoadCount(Recorder) \/ RrStoreCount(Recorder) \/ RrTimes(Recorder)
    \/ RrLoadBytes(Recorder) \/ RrStoreBytes(Recorder) \/ RrRelease(Recorder)

SpecTrim == TrimInit /\ [][TrimNext]_vars

\* ---------------------------------------------------- the whole collector

Init == \E c \in Capacities : InitWith(c)

\* the fields of the collector in focus and the place of its sampler thread
InFocus ==
    [lock              |-> lock,
     max_history_size  |-> max_history_size,
     request_history   |-> request_history,
     request_counts    |-> request_counts,
     response_times    |-> response_times,
     bytes_transferred |-> bytes_transferred,
     system_history    |-> system_history,
     last_disk_io      |-> last_disk_io,
     last_network_io   |-> last_network_io,
     cache_hit_count   |-> cache_hit_count,
     cache_miss_count  |-> cache_miss_count,
     total_requests    |-> total_requests,
     recorded          |-> recorded,
     sampled           |-> sampled,
     bg                |-> [pc |-> pc[Sampler], arg |-> arg[Sampler],
                            tmp |-> tmp[Sampler], ret |-> ret[Sampler],
                            frame |-> frame[Sampler]]]

\* every collector of the process, by number: 0 is the one built directly
\* with MetricsCollector(c), k >= 1 the k-th that get_metrics_collector built
Collectors ==
    [k \in DOMAIN others \cup {focus} |-> IF k = focus THEN InFocus ELSE others[k]]

\* the variables turn to collector k.  No statement of the program runs:
\* Collectors, the threads of the callers and the globals stay as they are.
Attend(k) ==
    /\ k \in DOMAIN others
    /\ focus' = k
    /\ others' = [j \in (DOMAIN others \ {k}) \cup {focus} |-> Collectors[j]]
    /\ lock' = others[k].lock
    /\ max_history_size' = others[k].max_history_size
    /\ request_history' = others[k].request_history
    /\ request_counts' = others[k].request_counts
    /\ response_times' = others[k].response_times
    /\ bytes_transferred' = others[k].bytes_transferred
    /\ system_history' = others[k].system_history
    /\ last_disk_io' = others[k].last_disk_io
    /\ last_network_io' = others[k].last_network_io
    /\ cache_hit_count' = others[k].cache_hit_count
    /\ cache_miss_count' = others[k].cache_miss_count
    /\ total_requests' = others[k].total_requests
    /\ recorded' = others[k].recorded
    /\ sampled' = others[k].sampled
    /\ pc' = [pc EXCEPT ![Sampler] = others[k].bg.pc]
    /\ arg' = [arg EXCEPT ![Sampler] = others[k].bg.arg]
    /\ tmp' = [tmp EXCEPT ![Sampler] = others[k].bg.tmp]
    /\ ret' = [ret EXCEPT ![Sampler] = others[k].bg.ret]
    /\ frame' = [frame EXCEPT ![Sampler] = others[k].bg.frame]
    /\ UNCHANGED <<now, grsVars, calls, metrics_collector, created, collector,
                   fs, mount>>

\* where a caller thread is inside a method of a collector
MethodLabels ==
    {"rch_with", "rch_hit_load", "rch_hit_store", "rch_total_load",
     "rch_total_store", "rch_exit",
     "rcm_with", "rcm_miss_load", "rcm_miss_store", "rcm_total_load",
     "rcm_total_store", "rcm_exit",
     "rr_with", "rr_append", "rr_count_load", "rr_count_store", "rr_times",
     "rr_bytes_load", "rr_bytes_store", "rr_exit",
     "grs_with", "grs_cutoff", "grs_filter", "grs_stats", "grs_exit",
     "gss_with", "gss_stats", "gss_exit",
     "gcs_with", "gcs_rate", "gcs_dict", "gcs_exit",
     "exp_request", "exp_system", "exp_cache", "exp_join", "exp_exit",
     "csm_read", "csm_delta", "csm_disk_read", "csm_disk_write", "csm_net",
     "csm_net_sent", "csm_net_recv", "csm_store_disk", "csm_store_net",
     "csm_metrics", "csm_with", "csm_append", "csm_except", "csm_exit"}

\* the collector the running method of caller thread t is bound to: the
\* global one get_metrics_collector returned to the module-level function
\* (record_request_metrics under dispatch, record_cache_hit,
\* record_cache_miss), the directly built one otherwise
Target(t) ==
    IF frame[t].op \in ModuleRecorders \cup {"dispatch"} THEN collector[t] ELSE 0

\* the step of a caller thread inside a method is a step on the collector
\* in focus (the sampler thread in pc is the one of that collector)
OnFocus ==
    \A t \in Callers :
        LET regs == <<pc[t], arg[t], tmp[t], ret[t], frame[t], cutoff_time[t],
                      recent_requests[t], it[t]>>
        IN (regs' # regs /\ pc[t] \in MethodLabels) => Target(t) = focus

Next ==
    \/ /\ \/ CacheNext \/ RequestNext \/ SystemNext \/ SamplerNext
          \/ SingletonNext \/ ModuleCacheNext \/ MiddlewareNext \/ ExportNext
          \/ OverviewNext \/ ReposNext \/ DetailsNext \/ BusyCacheNext
       /\ OnFocus
    \/ \E k \in DOMAIN others : Attend(k)

Spec == Init /\ [][Next]_vars

\* the module-level cache workload on whichever collector the global is:
\* the module has been imported (_metrics_collector = None) beside a
\* collector built directly
ModuleCacheInit == InitWith(2)

ModuleCacheStep ==
    \/ ModuleCacheNext /\ OnFocus
    \/ \E k \in DOMAIN others : Attend(k)

SpecModuleCache == ModuleCacheInit /\ [][ModuleCacheStep]_vars

\* ================================================================== claims

CallersIdle == \A t \in Callers : pc[t] = "idle"

Min(a, b) == IF a <= b THEN a ELSE b

\* sum of d[k] over the keys k in S
RECURSIVE SumOver(_, _)
SumOver(d, S) ==
    IF S = {} THEN 0
    ELSE LET k == CHOOSE x \in S : TRUE IN d[k] + SumOver(d, S \ {k})

\* ---------------------------------------------------------------- cache

\* C1: in every state in which no thread holds the lock, total_requests
\* equals cache_hit_count + cache_miss_count, and every dict returned by
\* get_cache_stats has total_requests = cache_hits + cache_misses.
C1_TotalIsHitsPlusMisses ==
    /\ lock = NoThread => total_requests = cache_hit_count + cache_miss_count
    /\ \A t \in Callers :
          ret[t].op = "get_cache_stats" =>
             /\ ret[t].exc = ""
             /\ ret[t].value.total_requests =
                   ret[t].value.cache_hits + ret[t].value.cache_misses

\* C1 as it was stated: the three fields agree in every reachable state,
\* also between the two stores of a recording call (lines 148-149, 154-155)
C1_TotalInEveryState ==
    total_requests = cache_hit_count + cache_miss_count

\* get_cache_stats returned 1 hit + 1 miss = 2 after both were recorded
C1_Witness ==
    \E t \in Callers :
        /\ pc[t] = "gcs_exit"
        /\ lock = t
        /\ ret[t].op = "get_cache_stats"
        /\ ret[t].exc = ""
        /\ ret[t].value.cache_hits = 1
        /\ ret[t].value.cache_misses = 1
        /\ ret[t].value.total_requests = 2

\* C4: once all callers have finished, cache_hit_count is the number of
\* record_cache_hit calls, cache_miss_count the number of record_cache_miss
\* calls, and total_requests their sum, whatever the interleaving was.
C4_NoLostCacheIncrement ==
    CallersIdle =>
        /\ cache_hit_count = Invoked("record_cache_hit")
        /\ cache_miss_count = Invoked("record_cache_miss")
        /\ total_requests =
              Invoked("record_cache_hit") + Invoked("record_cache_miss")

\* two hits and a miss were recorded and all callers have finished
C4_Witness ==
    /\ CallersIdle
    /\ Invoked("record_cache_hit") = 2
    /\ Invoked("record_cache_miss") = 1
    /\ cache_hit_count = 2
    /\ cache_miss_count = 1
    /\ total_requests = 3

\* C10: get_cache_stats never raises; hit_rate_percent is exactly 0 when
\* total_requests is 0, equals cache_hits / total_requests * 100 otherwise,
\* and lies within [0, 100].
C10_HitRate ==
    \A t \in Callers :
        ret[t].op = "get_cache_stats" =>
           /\ ret[t].exc = ""
           /\ LET v == ret[t].value
                  r == v.hit_rate_percent
              IN /\ r.den > 0
                 /\ v.total_requests = 0 => r.num = 0
                 /\ v.total_requests > 0 =>
                       r.num * v.total_requests = v.cache_hits * 100 * r.den
                 /\ 0 <= r.num
                 /\ r.num <= 100 * r.den

\* get_cache_stats returned a rate of 50 percent: 1 hit out of 2
C10_Witness ==
    \E t \in Callers :
        /\ ret[t].op = "get_cache_stats"
        /\ ret[t].exc = ""
        /\ ret[t].value.cache_hits = 1
        /\ ret[t].value.total_requests = 2
        /\ ret[t].value.hit_rate_percent = [num |-> 50, den |-> 1]

\* -------------------------------------------------------------- requests

\* indexes of the entries of history h whose timestamp is at or after cutoff
WindowOf(h, cutoff) == {i \in 1..Len(h) : h[i].timestamp >= cutoff}

\* a get_request_stats call of thread t has produced its result and still
\* holds the lock: request_history is the history at that instant
GrsDone(t) == pc[t] = "grs_exit" /\ ret[t].op = "get_request_stats"

\* C2: request_history never holds more than max_history_size entries and is
\* exactly the last min(N, max_history_size) of the N metrics recorded so
\* far, oldest first; an append is never blocked or rejected.
C2_HistoryIsLastRecorded ==
    LET n == Len(recorded)
        k == Min(n, max_history_size)
    IN /\ Len(request_history) <= max_history_size
       /\ Len(request_history) = k
       /\ \A i \in 1..k : request_history[i] = recorded[n - k + i]
       /\ \A t \in Callers : pc[t] = "rr_append" => ENABLED RrAppend(t)

\* three different metrics were recorded into a collector of capacity 2:
\* the first was evicted, the other two are kept in order
C2_Witness ==
    /\ max_history_size = 2
    /\ Len(recorded) = 3
    /\ Len(request_history) = 2
    /\ recorded[1] # recorded[2]
    /\ recorded[1] # recorded[3]
    /\ recorded[2] # recorded[3]
    /\ request_history = <<recorded[2], recorded[3]>>
    /\ CallersIdle

\* C3: once all callers have finished, if the number of record_request calls
\* does not exceed the capacity, request_history holds exactly that many
\* entries and the per-endpoint request_counts sum to it.
C3_NoLostRequest ==
    (CallersIdle /\ Invoked("record_request") <= max_history_size) =>
        /\ Len(request_history) = Invoked("record_request")
        /\ SumOver(request_counts, DOMAIN request_counts) = Invoked("record_request")

\* two requests for the same endpoint were recorded, capacity 2
C3_Witness ==
    /\ CallersIdle
    /\ max_history_size = 2
    /\ Invoked("record_request") = 2
    /\ Len(request_history) = 2
    /\ Endpoint(request_history[1]) = Endpoint(request_history[2])
    /\ request_counts[Endpoint(request_history[1])] = 2

\* C6: the result of get_request_stats is computed from request_history as
\* it stands at one instant while the lock is held: the filtered list is the
\* filter of the current history, and in the result total_requests equals
\* the sum of the status_codes counts and of the per-endpoint counts, and
\* total_bytes_transferred the sum of the per-endpoint bytes.
C6_ConsistentSnapshot ==
    \A t \in Callers :
        GrsDone(t) =>
           /\ ret[t].exc = ""
           /\ recent_requests[t] =
                 SelectSeq(request_history,
                           LAMBDA req : req.timestamp >= cutoff_time[t].int)
           /\ LET v == ret[t].value
                  counts == [e \in DOMAIN v.endpoints |-> v.endpoints[e].count]
                  bytes  == [e \in DOMAIN v.endpoints |-> v.endpoints[e].bytes]
              IN /\ v.total_requests = Len(recent_requests[t])
                 /\ v.total_requests = SumOver(v.status_codes, DOMAIN v.status_codes)
                 /\ v.total_requests = SumOver(counts, DOMAIN counts)
                 /\ v.total_bytes_transferred = SumOver(bytes, DOMAIN bytes)

\* a result over one entry is ready while the other caller waits at the
\* lock with a record_request
C6_Witness ==
    \E t \in Callers, u \in Callers :
        /\ t # u
        /\ GrsDone(t)
        /\ ret[t].exc = ""
        /\ ret[t].value.total_requests = 1
        /\ pc[u] = "rr_with"

\* C7: get_request_stats aggregates exactly the entries of request_history
\* whose timestamp is at or after cutoff_time, wherever they sit: they, and
\* only they, make up total_requests, the byte total, the response-time mean
\* and the keys of status_codes and endpoints.
C7_ExactWindow ==
    \A t \in Callers :
        GrsDone(t) =>
           /\ ret[t].exc = ""
           /\ LET v == ret[t].value
                  h == request_history
                  W == WindowOf(h, cutoff_time[t].int)
                  rts == [i \in 1..Len(h) |-> h[i].response_time]
                  bts == [i \in 1..Len(h) |-> h[i].bytes_sent + h[i].bytes_received]
              IN /\ v.total_requests = Cardinality(W)
                 /\ v.total_bytes_transferred = SumOver(bts, W)
                 /\ v.avg_response_time.num * Cardinality(W) =
                       v.avg_response_time.den * SumOver(rts, W)
                 /\ DOMAIN v.status_codes = {h[i].status_code : i \in W}
                 /\ DOMAIN v.endpoints = {Endpoint(h[i]) : i \in W}

\* the first entry lies exactly on the cutoff and is counted, the second,
\* more recent in the history, is older than the cutoff and is not
C7_Witness ==
    \E t \in Callers :
        /\ GrsDone(t)
        /\ Len(request_history) = 2
        /\ request_history[1].timestamp = cutoff_time[t].int
        /\ request_history[2].timestamp < cutoff_time[t].int
        /\ Endpoint(request_history[1]) # Endpoint(request_history[2])
        /\ ret[t].exc = ""
        /\ ret[t].value.total_requests = 1
        /\ DOMAIN ret[t].value.endpoints = {Endpoint(request_history[1])}

GrsLabels == {"grs_cutoff", "grs_with", "grs_filter", "grs_stats", "grs_exit"}

\* get_request_stats never raises and returns the zero-valued result when
\* no entry lies in the window
C8_ZeroResult ==
    \A t \in Callers :
        GrsDone(t) =>
           /\ ret[t].exc = ""
           /\ WindowOf(request_history, cutoff_time[t].int) = {} =>
                 /\ ret[t].value.total_requests = 0
                 /\ ret[t].value.avg_response_time = [num |-> 0, den |-> 1]
                 /\ ret[t].value.total_bytes_transferred = 0
                 /\ ret[t].value.status_codes = <<>>
                 /\ ret[t].value.endpoints = <<>>

\* no step of get_request_stats changes the store
C8_StoreUnchanged ==
    \A t \in Callers :
        (pc[t] \in GrsLabels /\ (pc'[t] # pc[t] \/ it'[t] # it[t])) =>
            UNCHANGED <<max_history_size, reqVars, sysVars, cacheVars>>

\* C8: whenever no history entry falls inside the window, get_request_stats
\* returns the zero-valued result, never raises (no division by zero), and
\* leaves the store unchanged.
C8_EmptyWindow == []C8_ZeroResult /\ [][C8_StoreUnchanged]_vars

\* the zero result was returned for a history of two entries, both older
\* than the cutoff
C8_Witness ==
    \E t \in Callers :
        /\ GrsDone(t)
        /\ Len(request_history) = 2
        /\ \A i \in 1..2 : request_history[i].timestamp < cutoff_time[t].int
        /\ ret[t].exc = ""
        /\ ret[t].value.total_requests = 0
        /\ ret[t].value.endpoints = <<>>

\* C9: for a non-empty window, total_requests is the number of in-window
\* entries, avg_response_time their mean response time,
\* total_bytes_transferred their sent + received bytes, status_codes the
\* number of occurrences of each occurring status code, and endpoints maps
\* each occurring "METHOD path" to its in-window count, byte sum and the mean
\* response time of the in-window entries with that key.
C9_Statistics ==
    \A t \in Callers :
        (GrsDone(t) /\ WindowOf(request_history, cutoff_time[t].int) # {}) =>
           /\ ret[t].exc = ""
           /\ LET v == ret[t].value
                  h == request_history
                  W == WindowOf(h, cutoff_time[t].int)
                  rts == [i \in 1..Len(h) |-> h[i].response_time]
                  bts == [i \in 1..Len(h) |-> h[i].bytes_sent + h[i].bytes_received]
                  WithStatus(c) == {i \in W : h[i].status_code = c}
                  WithKey(e) == {i \in W : h[i].method \o " " \o h[i].path = e}
              IN /\ v.total_requests = Cardinality(W)
                 /\ v.avg_response_time.den > 0
                 /\ v.avg_response_time.num * Cardinality(W) =
                       v.avg_response_time.den * SumOver(rts, W)
                 /\ v.total_bytes_transferred = SumOver(bts, W)
                 /\ DOMAIN v.status_codes = {h[i].status_code : i \in W}
                 /\ \A c \in DOMAIN v.status_codes :
                       v.status_codes[c] = Cardinality(WithStatus(c))
                 /\ DOMAIN v.endpoints = {h[i].method \o " " \o h[i].path : i \in W}
                 /\ \A e \in DOMAIN v.endpoints :
                       /\ v.endpoints[e].count = Cardinality(WithKey(e))
                       /\ v.endpoints[e].bytes = SumOver(bts, WithKey(e))
                       /\ v.endpoints[e].avg_time.den > 0
                       /\ v.endpoints[e].avg_time.num * Cardinality(WithKey(e)) =
                             v.endpoints[e].avg_time.den * SumOver(rts, WithKey(e))

\* a result over two in-window entries of two endpoints with different
\* response times and status codes
C9_Witness ==
    \E t \in Callers :
        /\ GrsDone(t)
        /\ ret[t].exc = ""
        /\ ret[t].value.total_requests = 2
        /\ DOMAIN ret[t].value.endpoints = {"GET /a", "POST /b"}
        /\ ret[t].value.endpoints["GET /a"].avg_time = [num |-> 2, den |-> 1]
        /\ ret[t].value.endpoints["POST /b"].avg_time = [num |-> 4, den |-> 1]
        /\ ret[t].value.avg_response_time = [num |-> 3, den |-> 1]
        /\ DOMAIN ret[t].value.status_codes = {200, 404}

\* the recorded metrics whose key "METHOD path" is e, in recording order
RecordedAt(e) == SelectSeq(recorded, LAMBDA m : m.method \o " " \o m.path = e)

RecordedKeys == {recorded[i].method \o " " \o recorded[i].path : i \in 1..Len(recorded)}

\* C11: a record_request(m) that has run its body left m as the newest entry
\* of request_history and m.response_time as the last element of
\* response_times["METHOD path"]; and whenever no thread is inside a locked
\* section, for every key request_counts is the number of metrics ever
\* recorded with that key, bytes_transferred the sum of their bytes_sent +
\* bytes_received and response_times the list of their response times (as
\* long as it holds no more than 1000 entries), with no other key present:
\* each call adds exactly its own contribution to its own key, and evictions
\* from request_history take nothing away.
C11_RecordRequest ==
    /\ \A t \in Callers :
          pc[t] = "rr_exit" =>
             LET e == arg[t].method \o " " \o arg[t].path IN
             /\ request_history # <<>>
             /\ request_history[Len(request_history)] = arg[t]
             /\ e \in DOMAIN response_times
             /\ response_times[e] # <<>>
             /\ response_times[e][Len(response_times[e])] = arg[t].response_time
    /\ lock = NoThread =>
          /\ DOMAIN request_counts = RecordedKeys
          /\ DOMAIN response_times = RecordedKeys
          /\ DOMAIN bytes_transferred = RecordedKeys
          /\ \A e \in RecordedKeys :
                /\ request_counts[e] = Len(RecordedAt(e))
                /\ bytes_transferred[e] = Sum(BytesOf(RecordedAt(e)))
                /\ Len(RecordedAt(e)) <= ResponseTimesTrimAbove =>
                      response_times[e] = ResponseTimesOf(RecordedAt(e))

\* three metrics went into a collector of capacity 1, two of them for
\* "GET /a": the history kept one entry, the totals count all three
C11_Witness ==
    /\ CallersIdle
    /\ max_history_size = 1
    /\ Len(recorded) = 3
    /\ Len(request_history) = 1
    /\ DOMAIN request_counts = {"GET /a", "POST /b"}
    /\ request_counts["GET /a"] = 2
    /\ request_counts["POST /b"] = 1
    /\ response_times["GET /a"] = <<1, 2>>
    /\ bytes_transferred["GET /a"] = 4
    /\ bytes_transferred["POST /b"] = 3

\* list l is the end of list all
IsSuffix(l, all) == Len(l) <= Len(all) /\ l = LastN(all, Len(l))

\* the response-time lists are bounded ends of what was recorded
TrimmedLists ==
    \A e \in DOMAIN response_times :
        LET l == response_times[e]
            all == ResponseTimesOf(RecordedAt(e))
        IN /\ Len(l) <= ResponseTimesTrimAbove + 1
           /\ lock = NoThread =>
                 /\ l # <<>>
                 /\ IsSuffix(l, all)
                 /\ l[Len(l)] = all[Len(all)]

\* the `Track response times` step of a record_request: a list of more than
\* 1000 entries is cut to its last 500 before the new time is appended
TrimThenAppend ==
    \A t \in Callers :
        (pc[t] = "rr_times" /\ pc'[t] # "rr_times") =>
            LET e == arg[t].method \o " " \o arg[t].path
                old == IF e \in DOMAIN response_times THEN response_times[e] ELSE <<>>
            IN response_times'[e] =
                  Append(IF Len(old) > ResponseTimesTrimAbove
                         THEN SubSeq(old, Len(old) - ResponseTimesKeep + 1, Len(old))
                         ELSE old,
                         arg[t].response_time)

\* C32: the response-time list of every endpoint stays bounded: a
\* record_request that finds more than 1000 entries cuts the list to its 500
\* most recent entries and then appends, so the list never holds more than
\* 1001 entries, is always the end of the endpoint's recorded response times
\* in recording order, and ends with the most recently recorded one.
C32_ResponseTimesBounded == []TrimmedLists /\ [][TrimThenAppend]_vars

\* the 1002nd request for "GET /a" was recorded: the list, of 1001 entries
\* when it arrived, was cut and holds 501, the oldest of them the 502nd
C32_Witness ==
    /\ CallersIdle
    /\ Len(RecordedAt("GET /a")) = ResponseTimesTrimAbove + 2
    /\ Len(response_times["GET /a"]) = ResponseTimesKeep + 1
    /\ response_times["GET /a"][1] = ResponseTimesKeep + 2

\* the step is one of thread t inside the body of the operation whose
\* labels are `labels`
StepIn(t, labels) == pc[t] \in labels /\ pc'[t] # pc[t]

RchLabels == {"rch_with", "rch_hit_load", "rch_hit_store", "rch_total_load",
              "rch_total_store", "rch_exit"}

RcmLabels == {"rcm_with", "rcm_miss_load", "rcm_miss_store", "rcm_total_load",
              "rcm_total_store", "rcm_exit"}

RrLabels == {"rr_with", "rr_append", "rr_count_load", "rr_count_store",
             "rr_times", "rr_bytes_load", "rr_bytes_store", "rr_exit"}

\* what the steps of the three recording operations change
FrameEffects ==
    \A t \in Callers :
        /\ StepIn(t, RchLabels) =>
              /\ UNCHANGED <<reqVars, sysVars, cache_miss_count>>
              /\ cache_hit_count' =
                    cache_hit_count + (IF pc[t] = "rch_hit_store" THEN 1 ELSE 0)
              /\ total_requests' =
                    total_requests + (IF pc[t] = "rch_total_store" THEN 1 ELSE 0)
        /\ StepIn(t, RcmLabels) =>
              /\ UNCHANGED <<reqVars, sysVars, cache_hit_count>>
              /\ cache_miss_count' =
                    cache_miss_count + (IF pc[t] = "rcm_miss_store" THEN 1 ELSE 0)
              /\ total_requests' =
                    total_requests + (IF pc[t] = "rcm_total_store" THEN 1 ELSE 0)
        /\ StepIn(t, RrLabels) => UNCHANGED <<cacheVars, sysVars>>

\* C33: record_cache_hit changes only cache_hit_count and total_requests,
\* each by +1, and record_cache_miss only cache_miss_count and
\* total_requests, each by +1; both leave request_history, the per-endpoint
\* maps and system_history as they are, and record_request leaves the three
\* cache counters and system_history as they are.
C33_FrameEffects == [][FrameEffects]_vars

\* a hit, a miss and a request were recorded: each left its own trace only
C33_Witness ==
    /\ CallersIdle
    /\ Invoked("record_cache_hit") = 1
    /\ Invoked("record_cache_miss") = 1
    /\ Invoked("record_request") = 1
    /\ cache_hit_count = 1
    /\ cache_miss_count = 1
    /\ total_requests = 2
    /\ Len(request_history) = 1
    /\ system_history = <<>>

\* ---------------------------------------------------------------- system

\* a get_system_stats call of thread t has produced its result and still
\* holds the lock: system_history is the history at that instant
GssDone(t) == pc[t] = "gss_exit" /\ ret[t].op = "get_system_stats"

\* C12: get_system_stats returns the all-zero result when system_history is
\* empty; otherwise disk_usage_percent, disk_io and network_io are the fields
\* of the latest snapshot and cpu_percent and memory_percent the arithmetic
\* means over the most recent min(10, n) snapshots, n the history length.
C12_SystemStats ==
    \A t \in Callers :
        GssDone(t) =>
           /\ ret[t].exc = ""
           /\ LET v == ret[t].value
                  h == system_history
                  n == Len(h)
                  k == Min(10, n)
                  R == (n - k + 1)..n
                  cpu == [i \in 1..n |-> h[i].cpu_percent]
                  mem == [i \in 1..n |-> h[i].memory_percent]
              IN IF n = 0
                 THEN /\ v.cpu_percent = [num |-> 0, den |-> 1]
                      /\ v.memory_percent = [num |-> 0, den |-> 1]
                      /\ v.disk_usage_percent = [num |-> 0, den |-> 1]
                      /\ v.disk_io = [read_bytes |-> 0, write_bytes |-> 0]
                      /\ v.network_io = [bytes_sent |-> 0, bytes_received |-> 0]
                 ELSE /\ v.disk_usage_percent = h[n].disk_usage_percent
                      /\ v.disk_io = [read_bytes  |-> h[n].disk_read_bytes,
                                      write_bytes |-> h[n].disk_write_bytes]
                      /\ v.network_io = [bytes_sent     |-> h[n].network_bytes_sent,
                                         bytes_received |-> h[n].network_bytes_received]
                      /\ v.cpu_percent.den > 0
                      /\ v.cpu_percent.num * k = v.cpu_percent.den * SumOver(cpu, R)
                      /\ v.memory_percent.den > 0
                      /\ v.memory_percent.num * k = v.memory_percent.den * SumOver(mem, R)

\* statistics over a history of more than 10 snapshots, where the mean of
\* the last 10 cpu values differs from the mean of all of them and the
\* latest snapshot carries non-zero deltas
C12_Witness ==
    \E t \in Callers :
        /\ GssDone(t)
        /\ ret[t].exc = ""
        /\ Len(system_history) > 10
        /\ LET v == ret[t].value
               n == Len(system_history)
               cpu == [i \in 1..n |-> system_history[i].cpu_percent]
           IN /\ v.cpu_percent.num * n # v.cpu_percent.den * SumOver(cpu, 1..n)
              /\ v.disk_io.read_bytes # 0
              /\ v.network_io.bytes_sent # 0

\* the counters of group g ("disk_io" or "net_io") of the last of the
\* readings rs that has them, NoCounters when none has
LastCounters(rs, g) ==
    LET with == {i \in 1..Len(rs) : rs[i][g] # NoCounters}
    IN IF with = {} THEN NoCounters
       ELSE rs[CHOOSE i \in with : \A j \in with : j <= i][g]

SamplerTickSettled ==
    pc[Sampler] \notin {"csm_store_net", "csm_metrics", "csm_with", "csm_append"}

C15_FailedTickWaitsLonger ==
    [][/\ (pc[Sampler] = "csm_except" /\ pc'[Sampler] # "csm_except") =>
             pc'[Sampler] = "bg_except"
       /\ (pc'[Sampler] = "bg_sleep" /\ pc[Sampler] # "bg_sleep") =>
             pc[Sampler] = "csm_exit"]_vars

SamplerTickLabels ==
    {"csm_read", "csm_delta", "csm_disk_read", "csm_disk_write", "csm_net",
     "csm_net_sent", "csm_net_recv", "csm_store_disk", "csm_store_net",
     "csm_metrics", "csm_with", "csm_append", "csm_exit", "csm_except"}

SamplerLabels == SamplerTickLabels \cup {"bg_loop", "bg_sleep", "bg_except"}

\* C16: a failure of an OS read never ends the sampling loop: the sampler
\* thread always stays inside its loop; under fair scheduling every tick,
\* failed or successful, comes back to the head of the loop and (as long as
\* the tick bound allows) another tick starts; and every tick whose reads
\* succeeded, also after a failed one, appends a snapshot.
C16_SamplingContinues ==
    /\ [](pc[Sampler] \in SamplerLabels)
    /\ [](pc[Sampler] \in SamplerTickLabels => <>(pc[Sampler] = "bg_loop"))
    /\ \A k \in 0..(MaxTicks - 1) :
          (calls["collect_system_metrics"] = k)
             ~> (calls["collect_system_metrics"] = k + 1)
    /\ \A n \in 0..MaxTicks :
          (pc[Sampler] = "csm_delta" /\ Len(system_history) = n)
             ~> (Len(system_history) = n + 1)

\* the first tick failed, the second succeeded and appended its snapshot
C16_Witness ==
    /\ calls["collect_system_metrics"] = 2
    /\ pc[Sampler] = "csm_exit"
    /\ Len(system_history) = 1
    /\ Len(sampled) = 1

\* between the ticks, failed ones included, the baselines are the counters
\* of the last successful tick that read them; and the deltas a tick has
\* computed are against them
BaselinesSurviveFailures ==
    /\ pc[Sampler] \in {"bg_loop", "bg_sleep", "bg_except", "csm_read",
                         "csm_delta", "csm_disk_read", "csm_disk_write",
                         "csm_net", "csm_net_sent", "csm_net_recv",
                         "csm_except"} =>
          /\ last_disk_io = LastCounters(sampled, "disk_io")
          /\ last_network_io = LastCounters(sampled, "net_io")
          /\ Len(system_history) = Len(sampled)
    /\ pc[Sampler] = "csm_store_disk" =>
          LET r == arg[Sampler]
              disk == LastCounters(sampled, "disk_io")
              net == LastCounters(sampled, "net_io")
          IN /\ (r.disk_io # NoCounters /\ disk # NoCounters) =>
                   /\ tmp[Sampler].disk_read_bytes = r.disk_io[1] - disk[1]
                   /\ tmp[Sampler].disk_write_bytes = r.disk_io[2] - disk[2]
             /\ (r.net_io # NoCounters /\ net # NoCounters) =>
                   /\ tmp[Sampler].network_bytes_sent = r.net_io[1] - net[1]
                   /\ tmp[Sampler].network_bytes_received = r.net_io[2] - net[2]

\* a step of a failing tick changes nothing of the store; of the steps of a
\* tick only the append changes system_history, by one snapshot
TickEffects ==
    /\ (pc[Sampler] # pc'[Sampler] /\ "csm_except" \in {pc[Sampler], pc'[Sampler]}) =>
          UNCHANGED <<reqVars, sysVars, cacheVars>>
    /\ (pc[Sampler] # pc'[Sampler] /\ pc[Sampler] # "csm_append") =>
          system_history' = system_history
    /\ (pc[Sampler] = "csm_append" /\ pc'[Sampler] # "csm_append") =>
          /\ Len(system_history') = Len(system_history) + 1
          /\ SubSeq(system_history', 1, Len(system_history)) = system_history

\* C34: a sampling tick that fails at an OS read leaves the store as it
\* was: no snapshot is appended and the disk and network baselines stay, so
\* the first successful tick after a failure computes its deltas against the
\* readings of the last successful tick; a successful tick appends exactly
\* one snapshot.
C34_FailedTickLeavesStore == []BaselinesSurviveFailures /\ [][TickEffects]_vars

\* one tick had succeeded before, reading disk (1, 2); of the two ticks
\* since, the first failed and the second read (3, 5) and recorded the
\* difference to the tick before the failure
C34_Witness ==
    /\ calls["collect_system_metrics"] = 2
    /\ pc[Sampler] = "csm_exit"
    /\ Len(sampled) = 2
    /\ Len(system_history) = 2
    /\ sampled[1].disk_io = <<1, 2>>
    /\ sampled[2].disk_io = <<3, 5>>
    /\ system_history[2].disk_read_bytes = 2
    /\ system_history[2].disk_write_bytes = 3

\* ------------------------------------------------------------- singleton

\* C19: get_metrics_collector returns the same MetricsCollector instance on
\* every call, for any interleaving of callers, concurrent first calls from
\* different threads included: at most one collector (and one sampler
\* thread) is ever created, every result is that collector, and nothing
\* recorded through record_cache_hit / record_cache_miss is counted by a
\* collector other than the global one.
C19_OneCollector ==
    /\ created <= 1
    /\ \A t \in Callers :
          ret[t].op = "get_metrics_collector" =>
             /\ ret[t].exc = ""
             /\ ret[t].value = 1
    /\ \A t \in Callers, u \in Callers :
          (collector[t] # 0 /\ collector[u] # 0) => collector[t] = collector[u]
    /\ \A k \in DOMAIN Collectors :
          k # metrics_collector => Collectors[k].total_requests = 0

\* ------------------------------------------------------------ middleware

\* dispatch of thread t is over: its caller is about to get ret[t]
MwDone(t) == frame[t].op = "dispatch" /\ pc[t] = "mw_exit"

\* C17: a dispatch on which the downstream handler returned a response calls
\* record_request_metrics exactly once, after the handler returned and before
\* dispatch returns, with the request's method and path and the response's
\* status code; a dispatch whose handler raised makes no such call.
C17_OneMetricPerResponse ==
    \A t \in Callers :
        frame[t].op = "dispatch" =>
           LET l == frame[t].locals IN
           /\ Len(l.metric_calls) <= 1
           /\ pc[t] \in {"mw_start", "mw_call_next", "mw_measure", "mw_record"} =>
                 l.metric_calls = <<>>
           /\ (MwDone(t) /\ l.response \in Responses) =>
                 /\ Len(l.metric_calls) = 1
                 /\ l.metric_calls[1].method = l.request.method
                 /\ l.metric_calls[1].path = l.request.path
                 /\ l.metric_calls[1].status_code = l.response.status_code
           /\ (MwDone(t) /\ l.response \notin Responses) =>
                 /\ ret[t].exc = "HandlerError"
                 /\ l.metric_calls = <<>>

\* a POST /b answered with status 500 was recorded once, and the collector
\* holds that metric
C17_Witness ==
    \E t \in Callers :
        /\ MwDone(t)
        /\ frame[t].locals.request.method = "POST"
        /\ frame[t].locals.response.status_code = 500
        /\ Len(frame[t].locals.metric_calls) = 1
        /\ frame[t].locals.metric_calls[1].status_code = 500
        /\ \E i \in 1..Len(request_history) :
              /\ request_history[i].method = "POST"
              /\ request_history[i].path = "/b"
              /\ request_history[i].status_code = 500
              /\ request_history[i].bytes_received = 2
              /\ request_history[i].bytes_sent = 0

\* C18: when recording the metrics raised, dispatch logged a warning and
\* still returns the response the downstream handler produced, unaltered;
\* the exception does not reach the caller of dispatch.  The response local
\* is never reassigned after call_next returned.
C18_RecordingFailureSwallowed ==
    \A t \in Callers :
        /\ (MwDone(t) /\ frame[t].locals.warnings > 0) =>
              /\ frame[t].locals.warnings = 1
              /\ frame[t].locals.response \in Responses
              /\ ret[t].exc = ""
              /\ ret[t].value = frame[t].locals.response
        /\ pc[t] = "mw_except" =>
              /\ frame[t].locals.warnings = 0
              /\ frame[t].locals.response \in Responses

\* recording failed for a request answered with status 200 and a body of 3
\* bytes; dispatch returned that response
C18_Witness ==
    \E t \in Callers :
        /\ MwDone(t)
        /\ frame[t].locals.warnings = 1
        /\ ret[t].exc = ""
        /\ ret[t].value = [status_code |-> 200, body |-> [kind |-> "bytes", len |-> 3]]

\* the metric families of the exposition, in the order of the text
ExportNames ==
    <<"olah_http_requests_total", "olah_http_request_duration_seconds",
      "olah_http_bytes_transferred_total", "olah_system_cpu_percent",
      "olah_system_memory_percent", "olah_system_disk_usage_percent",
      "olah_cache_requests_total", "olah_cache_hits_total",
      "olah_cache_misses_total", "olah_cache_hit_rate_percent">>

ExportCounters ==
    {"olah_http_requests_total", "olah_http_bytes_transferred_total",
     "olah_cache_requests_total", "olah_cache_hits_total",
     "olah_cache_misses_total"}

ExportGauges ==
    {"olah_http_request_duration_seconds", "olah_system_cpu_percent",
     "olah_system_memory_percent", "olah_system_disk_usage_percent",
     "olah_cache_hit_rate_percent"}

\* export_prometheus_metrics of thread t has returned its lines
ExpDone(t) ==
    /\ pc[t] = "exp_exit"
    /\ ret[t].op = "export_prometheus_metrics"

\* the lines are blocks of three: "# HELP <name> ...", "# TYPE <name>
\* <type>", "<name> <value>", with one name per block
WellFormedBlocks(lines) ==
    /\ Len(lines) = 3 * Len(ExportNames)
    /\ \A k \in 1..Len(ExportNames) :
          LET help == lines[3 * k - 2]
              type == lines[3 * k - 1]
              sample == lines[3 * k]
          IN /\ Len(help) = 3 /\ help[1] = "# HELP" /\ help[2] = ExportNames[k]
             /\ Len(type) = 3 /\ type[1] = "# TYPE" /\ type[2] = ExportNames[k]
             /\ type[3] \in {"counter", "gauge"}
             /\ Len(sample) = 2 /\ sample[1] = ExportNames[k]

\* the names of the families the lines declare with the given type
NamesTyped(lines, type) ==
    {lines[i][2] : i \in {j \in 1..Len(lines) :
                            /\ lines[j][1] = "# TYPE"
                            /\ lines[j][3] = type}}

\* C20: whatever the store holds, export_prometheus_metrics emits the same
\* ten metric families in the same fixed order, each as exactly three lines
\* (HELP, TYPE, sample) carrying the same metric name; the families typed
\* counter are exactly the five *_total metrics and the families typed gauge
\* are exactly the request duration, the three system percentages and the
\* cache hit rate.
C20_ExportFormat ==
    \A t \in Callers :
        ExpDone(t) =>
            /\ ret[t].exc = ""
            /\ WellFormedBlocks(ret[t].value)
            /\ NamesTyped(ret[t].value, "counter") = ExportCounters
            /\ NamesTyped(ret[t].value, "gauge") = ExportGauges

\* an export returned from a store that holds a request, a cache hit and a
\* system snapshot, and it shows them
C20_Witness ==
    \E t \in Callers :
        /\ ExpDone(t)
        /\ Len(ret[t].value) = 30
        /\ ret[t].value[3] = <<"olah_http_requests_total", 1>>
        /\ ret[t].value[24][2] > 0
        /\ ret[t].value[12][2].scaled > 0

\* an export returned from an empty store
C20_WitnessEmpty ==
    \E t \in Callers :
        /\ ExpDone(t)
        /\ ret[t].value[3] = <<"olah_http_requests_total", 0>>
        /\ ret[t].value[21] = <<"olah_cache_requests_total", 0>>
        /\ ret[t].value[12][2].scaled = 0

\* the value of the sample line of metric `name` in the exported lines
SampleOf(lines, name) ==
    lines[CHOOSE i \in 1..Len(lines) : Len(lines[i]) = 2 /\ lines[i][1] = name][2]

\* C35: in every text of export_prometheus_metrics the value of
\* olah_cache_requests_total is the value of olah_cache_hits_total plus the
\* value of olah_cache_misses_total, also while hits and misses are being
\* recorded.
C35_ExportedCacheTotal ==
    \A t \in Callers :
        ExpDone(t) =>
            SampleOf(ret[t].value, "olah_cache_requests_total")
                = SampleOf(ret[t].value, "olah_cache_hits_total")
                  + SampleOf(ret[t].value, "olah_cache_misses_total")

\* an export returned 1 hit + 0 misses = 1 while the recording thread is
\* inside record_cache_miss, between its two stores
C35_Witness ==
    \E t \in Callers :
        /\ ExpDone(t)
        /\ SampleOf(ret[t].value, "olah_cache_hits_total") = 1
        /\ SampleOf(ret[t].value, "olah_cache_misses_total") = 0
        /\ SampleOf(ret[t].value, "olah_cache_requests_total") = 1
        /\ pc[Recorder] = "rcm_total_load"
        /\ cache_miss_count = 1
        /\ total_requests = 1

\* the labels inside a `with self._lock:` block, its last statement included
InsideLock ==
    {"rch_hit_load", "rch_hit_store", "rch_total_load", "rch_total_store",
     "rch_exit",
     "rcm_miss_load", "rcm_miss_store", "rcm_total_load", "rcm_total_store",
     "rcm_exit",
     "rr_append", "rr_count_load", "rr_count_store", "rr_times",
     "rr_bytes_load", "rr_bytes_store", "rr_exit",
     "grs_filter", "grs_stats", "grs_exit",
     "gss_stats", "gss_exit",
     "gcs_rate", "gcs_dict", "gcs_exit",
     "csm_append", "csm_exit"}

\* the labels of the `with self._lock:` statements
AtLock ==
    {"rch_with", "rcm_with", "rr_with", "grs_with", "gss_with", "gcs_with",
     "csm_with"}

\* where a thread is when it runs no operation of the store
AtRest == {"idle", "bg_loop", "bg_sleep", "bg_except"}

\* a thread holds the lock only inside a `with` block: not after its
\* operation returned, not between the readers export calls, and not when
\* it arrives at a `with` statement
HeldOnlyInside == \A t \in Threads : lock = t => pc[t] \in InsideLock

\* C36: every store operation releases the lock before it returns, on the
\* zero-result early returns of get_request_stats and get_system_stats too,
\* and no thread arrives at a `with self._lock:` statement holding the lock
\* (export calls its three readers without it); so under fair scheduling
\* every thread waiting for the lock gets it and every operation started,
\* by the caller threads or the sampler thread, completes.
C36_LockReleasedAndProgress ==
    /\ []HeldOnlyInside
    /\ \A t \in Threads :
          /\ (pc[t] \in AtLock) ~> (lock = t)
          /\ (pc[t] \notin AtRest) ~> (pc[t] \in AtRest)

\* one caller holds the lock at the early return of get_system_stats (the
\* history is empty) while the exporter, which took and released the lock
\* twice, waits for it in its third reader
C36_Witness ==
    /\ lock = "c2"
    /\ pc["c2"] = "gss_exit"
    /\ ret["c2"].value = ZeroSystemStats
    /\ pc["c1"] = "gcs_with"
    /\ frame["c1"].op = "export_prometheus_metrics"
    /\ frame["c1"].locals.request_stats = ZeroRequestStats

\* C37: the metrics exported with TYPE counter, olah_http_requests_total
\* and olah_http_bytes_transferred_total, do not decrease from one export to
\* the next, whatever is recorded and however much time passes in between:
\* the text of the later export (the recording thread's, begun when the
\* exporting thread had its text) shows values at least those of the earlier.
C37_ExportedCountersMonotone ==
    (ExpDone(Exporter) /\ ExpDone(Recorder)) =>
        \A name \in {"olah_http_requests_total",
                      "olah_http_bytes_transferred_total"} :
            SampleOf(ret[Recorder].value, name) >= SampleOf(ret[Exporter].value, name)

\* C21: cache_hit_count, cache_miss_count and total_requests never decrease
\* and are never reset during the lifetime of a collector: no step of any
\* store operation lowers one of them.
C21_CountersNeverDecrease ==
    [][/\ cache_hit_count' >= cache_hit_count
       /\ cache_miss_count' >= cache_miss_count
       /\ total_requests' >= total_requests]_vars

\* two misses were counted and the statistics were read
C21_Witness ==
    /\ calls["get_cache_stats"] >= 1
    /\ cache_miss_count = 2
    /\ total_requests = 2
    /\ \A t \in Callers : pc[t] = "idle"

\* -------------------------------------------------------- cache inventory

\* get_cache_overview of thread t has returned
OvDone(t) ==
    /\ pc[t] = "ov_exit"
    /\ ret[t].op = "get_cache_overview"

\* the categories whose directory exists
ExistingCategories == {c \in Categories : HasDir(fs, cache_dirs[c])}

\* the size and the file_count entries of a repo_counts dict
SizesOf(repo_counts) == [c \in DOMAIN repo_counts |-> repo_counts[c].size]

FileCountsOf(repo_counts) == [c \in DOMAIN repo_counts |-> repo_counts[c].file_count]

\* C22: the repo_counts of get_cache_overview has an entry for exactly the
\* categories whose directory exists (a plain file at the place of a
\* category directory is no such directory); total_size and total_files are
\* the sums of the entries' size and file_count; a missing category
\* directory or a missing cache root raises nothing and adds 0 to both
\* totals.
C22_Overview ==
    \A t \in Callers :
        OvDone(t) =>
            LET r == ret[t].value
            IN /\ ret[t].exc = ""
               /\ DOMAIN r.repo_counts = ExistingCategories
               /\ r.total_size = SumOver(SizesOf(r.repo_counts), ExistingCategories)
               /\ r.total_files = SumOver(FileCountsOf(r.repo_counts), ExistingCategories)
               /\ fs = NoTree => r.total_size = 0 /\ r.total_files = 0

\* the directories exactly two levels below directory d
ReposBelow(d) ==
    {i \in 1..Len(fs) : /\ fs[i].kind = "dir"
                         /\ Len(fs[i].path) = Len(d) + 2
                         /\ IsUnder(fs[i].path, d)}

\* C23: for each existing category directory, the repo_count of
\* get_cache_overview is the number of directories exactly two levels below
\* it, also when another organisation directory of the category cannot be
\* listed; plain files at the organisation or repository level and deeper
\* directories are not counted.
C23_RepoCount ==
    \A t \in Callers :
        OvDone(t) =>
            \A c \in DOMAIN ret[t].value.repo_counts :
                ret[t].value.repo_counts[c].repo_count
                    = Cardinality(ReposBelow(cache_dirs[c]))

\* get_cached_repos of thread t has returned
GcrDone(t) ==
    /\ pc[t] = "gcr_exit"
    /\ ret[t].op = "get_cached_repos"

\* C24: whatever repo_type is passed, 'files' and 'lfs' included, no record
\* returned by get_cached_repos describes a directory below the flat files
\* or lfs category directories.
C24_OnlyRepositoryCategories ==
    \A t \in Callers :
        GcrDone(t) =>
            \A i \in 1..Len(ret[t].value) :
                /\ ~IsUnder(ret[t].value[i].path, cache_dirs["files"])
                /\ ~IsUnder(ret[t].value[i].path, cache_dirs["lfs"])

\* where record x stands in the list seq
PositionIn(seq, x) == CHOOSE i \in 1..Len(seq) : seq[i] = x

\* C25: for sort_by in {size, last_access, last_modified, name} the list
\* returned by get_cached_repos is non-increasing in that key when sort_order
\* is 'desc' and non-decreasing when it is 'asc', and records with equal keys
\* stand in the order in which the directories were enumerated, in both
\* orders.
C25_SortedAndStable ==
    \A t \in Callers :
        LET l == frame[t].locals
            r == ret[t].value
        IN (GcrDone(t) /\ l.sort_by \in SortKeys /\ l.sort_order \in {"asc", "desc"}) =>
              \A i, j \in 1..Len(r) :
                  i < j =>
                      /\ l.sort_order = "desc" => ~KeyLess(l.sort_by, r[i], r[j])
                      /\ l.sort_order = "asc" => ~KeyLess(l.sort_by, r[j], r[i])
                      /\ (~KeyLess(l.sort_by, r[i], r[j]) /\ ~KeyLess(l.sort_by, r[j], r[i]))
                            => PositionIn(l.enumerated, r[i]) < PositionIn(l.enumerated, r[j])

\* three repositories sorted by last_modified, newest first: the two that
\* tie come behind, the one enumerated first (models) before the other
C25_Witness ==
    \E t \in Callers :
        /\ GcrDone(t)
        /\ frame[t].locals.sort_by = "last_modified"
        /\ frame[t].locals.sort_order = "desc"
        /\ Len(ret[t].value) = 3
        /\ ret[t].value[1].repo = repo_Y
        /\ ret[t].value[2].repo_type = "models"
        /\ ret[t].value[2].last_modified = ret[t].value[3].last_modified
        /\ ret[t].value[3].repo_type = "datasets"

\* C26: with a limit L >= 0, get_cached_repos returns exactly the first
\* min(L, n) records of the sorted list of the n matching repositories (none
\* for L = 0); without a limit it returns all n.
C26_Limit ==
    \A t \in Callers :
        LET l == frame[t].locals
        IN (GcrDone(t) /\ (l.limit = None \/ l.limit[1] >= 0)) =>
              IF l.limit = None THEN ret[t].value = l.sorted
              ELSE ret[t].value = SubSeq(l.sorted, 1, Min(l.limit[1], Len(l.sorted)))

\* the repositories of category rt the process can reach: the directories
\* two levels below the category directory, in a category and an
\* organisation it may list
ReadableRepos(rt) ==
    {fs[i].path : i \in {k \in 1..Len(fs) :
        /\ fs[k].kind = "dir"
        /\ Len(fs[k].path) = Len(cache_dirs[rt]) + 2
        /\ IsUnder(fs[k].path, cache_dirs[rt])
        /\ HasDir(fs, cache_dirs[rt])
        /\ cache_dirs[rt] \notin Unreadable(fs)
        /\ SubSeq(fs[k].path, 1, Len(fs[k].path) - 1) \notin Unreadable(fs)}}

\* C31: when a directory cannot be listed during get_cached_repos, the call
\* does not raise: it returns the records of the repositories it can reach
\* and leaves out only those of the unreadable subtree.
C31_PartialResults ==
    \A t \in Callers :
        LET l == frame[t].locals
        IN (GcrDone(t) /\ l.limit = None) =>
              /\ ret[t].exc = ""
              /\ {ret[t].value[i].path : i \in 1..Len(ret[t].value)}
                    = UNION {ReadableRepos(l.repo_types[j]) :
                                j \in {k \in 1..Len(l.repo_types) :
                                          l.repo_types[k] \in Categories}}

\* search_repos of thread t has returned
SrDone(t) ==
    /\ pc[t] = "sr_exit"
    /\ ret[t].op = "search_repos"

\* query is, whatever the case of the letters, part of the repository's
\* full name or of its description, the start of its first README
Matches(repo, query) ==
    \/ Contains(Lower(repo.full_name), Lower(query))
    \/ Contains(Lower(RepoDescription(fs, repo.path).value), Lower(query))

\* C28: search_repos(query, repo_type) returns exactly the records of
\* get_cached_repos(repo_type) whose full name or whose description contains
\* the query, compared case-insensitively; a repository whose description
\* alone contains it is returned too.
C28_SearchMatches ==
    \A t \in Callers :
        SrDone(t) =>
            ret[t].value = SelectSeq(frame[t].locals.repos,
                                     LAMBDA repo : Matches(repo, frame[t].locals.query))

\* get_repo_details of thread t has returned
GrdDone(t) ==
    /\ pc[t] = "grd_exit"
    /\ ret[t].op = "get_repo_details"

\* the directory <category>/<org>/<repo> the arguments a name exists
RepoDirExists(a) ==
    /\ a.repo_type \in Categories
    /\ HasDir(fs, cache_dirs[a.repo_type])
    /\ HasDir(fs, RepoPath(a.repo_type, a.org, a.repo))

\* C27: get_repo_details returns None, and raises nothing, whenever the
\* repo_type is unknown, the category directory does not exist or the
\* directory <category>/<org>/<repo> does not exist; it returns a record,
\* with file_count, git_info and description beside the base fields, only
\* when that directory exists.
C27_RepoDetails ==
    \A t \in Callers :
        GrdDone(t) =>
            /\ ~RepoDirExists(arg[t]) => (ret[t].exc = "" /\ ret[t].value = None)
            /\ (RepoDirExists(arg[t]) /\ ret[t].exc = "") =>
                  /\ ret[t].value # None
                  /\ {"file_count", "git_info", "description", "repo_type", "org",
                      "repo", "full_name", "size", "last_modified", "last_access",
                      "path"} \subseteq DOMAIN ret[t].value

\* C39: a record returned by get_repo_details describes the entry exactly
\* two levels below the category directory, at <category>/<org>/<repo>: an
\* org or repo with separators or '..' parts never makes it describe an
\* entry somewhere else, outside the category directory or at another depth.
C39_DetailsStayInCategory ==
    \A t \in Callers :
        (GrdDone(t) /\ ret[t].value # None) =>
            LET category == cache_dirs[arg[t].repo_type]
                described == RealPath(fs, ret[t].value.path)
            IN /\ IsUnder(described, category)
               /\ Len(described) = Len(category) + 2
               /\ described = category \o <<arg[t].org, arg[t].repo>>

\* get_cache_efficiency of thread t has returned
EffDone(t) ==
    /\ pc[t] = "eff_exit"
    /\ ret[t].op = "get_cache_efficiency"

\* q is a number from 0 to 100
IsPercentage(q) == q.den > 0 /\ q.num >= 0 /\ q.num <= 100 * q.den

\* C29: get_cache_efficiency returns an access_efficiency from 0 to 100,
\* for any tree, any access times and any files the proxy layer adds or
\* removes while the scan runs; it is 0 when total_files is 0.
C29_EfficiencyIsPercentage ==
    \A t \in Callers :
        EffDone(t) =>
            /\ ret[t].exc = ""
            /\ IsPercentage(ret[t].value.access_efficiency)
            /\ ret[t].value.total_files = 0 => ret[t].value.access_efficiency = Zero

\* the files below the existing category directories
CachedFiles ==
    {k \in 1..Len(fs) :
        /\ fs[k].kind = "file"
        /\ \E c \in Categories : HasDir(fs, cache_dirs[c]) /\ IsUnder(fs[k].path, cache_dirs[c])}

\* the last access of file k lies less / more than the given number of days
\* before time `at`
AccessedWithin(k, days, at) == AgeLess(at, fs[k].atime, days * Day)

AccessedBefore(k, days, at) == AgeMore(at, fs[k].atime, days * Day)

\* the counts of thread t's result are those of the tree as it is, at the
\* time the call read the clock
CountsOfTree(t) ==
    LET r == ret[t].value
        at == frame[t].locals.now
        recent == {k \in CachedFiles : AccessedWithin(k, RecentDays, at)}
        old == {k \in CachedFiles : AccessedBefore(k, OldDays, at)}
    IN /\ r.total_files = Cardinality(CachedFiles)
       /\ r.recent_access_count = Cardinality(recent)
       /\ r.old_access_count = Cardinality(old)
       /\ recent \cap old = {}
       /\ r.recent_access_count + r.old_access_count <= r.total_files
       /\ r.total_files > 0 =>
             r.access_efficiency = Mul(Div(r.recent_access_count, r.total_files), 100)

\* the proxy layer has written nothing since thread t began its call
Undisturbed(t) == frame[t].locals.writes = Writes

\* the process may list every directory of the tree
Listable == Unreadable(fs) = {}

Listed(t) == pc[t] = "gcr_exit" /\ ret[t].exc = ""

\* the records of a list, as a set
RecordsIn(list) == {list[i] : i \in 1..Len(list)}

\* a record without the access time the scans themselves may set
ButAccess(r) == [k \in DOMAIN r \ {"last_access"} |-> r[k]]

\* the records of two lists are the same: field by field on a tree the scans
\* leave as it is (noatime), and in all but last_access on a tree whose
\* access times the first scan has set
SameRecords(xs, ys) ==
    /\ {ButAccess(r) : r \in RecordsIn(xs)} = {ButAccess(r) : r \in RecordsIn(ys)}
    /\ mount = "noatime" => RecordsIn(xs) = RecordsIn(ys)

\* the records of two lists are the same, field by field
EqualRecords(xs, ys) == RecordsIn(xs) = RecordsIn(ys)

\* the overview and the list of category c agree on the number of its
\* repositories, and the list of every category has the records of the list
\* of c, by the comparison Same, and none of another category
ListsAgree(c, Same(_, _)) ==
    /\ (pc[Scanner] = "ov_exit" /\ Listed(SecondScanner)
          /\ arg[SecondScanner].repo_type = Some(c)) =>
            LET repo_counts == ret[Scanner].value.repo_counts
                records == ret[SecondScanner].value
            IN IF c \in DOMAIN repo_counts
               THEN repo_counts[c].repo_count = Len(records)
               ELSE records = <<>>
    /\ (Listed(Scanner) /\ arg[Scanner].repo_type = Some(c)
          /\ Listed(SecondScanner) /\ arg[SecondScanner].repo_type = None) =>
            LET one == ret[Scanner].value
                all == ret[SecondScanner].value
                of_c == SelectSeq(all, LAMBDA r : r.repo_type = c)
            IN /\ Same(of_c, one)
               /\ Len(of_c) = Len(one)
               /\ \A r \in RecordsIn(all) :
                     r.repo_type \in {"models", "datasets", "spaces"}

\* C38: on a tree that nothing but the scans themselves touches and that
\* raises no error, the repo_count get_cache_overview reports for a
\* repository category c (models, datasets, spaces) is the number of records
\* of get_cached_repos(repo_type=c) without limit, a category it reports no
\* count for having no records; and the records of get_cached_repos()
\* without repo_type, sorted by size or by name, are those of the three
\* per-category lists together and no others, equal in every field but
\* last_access, and in last_access too where the mount keeps the scans from
\* setting the access times.
C38_OverviewAgreesWithLists ==
    \A c \in {"models", "datasets", "spaces"} : ListsAgree(c, SameRecords)

\* C38 as it was stated: the list of every category is exactly the union of
\* the per-category lists, field by field, on any mount
C38_ExactUnion ==
    \A c \in {"models", "datasets", "spaces"} : ListsAgree(c, EqualRecords)

\* the overview counts one models repository beside a plain file of the
\* same organisation, and the list of models has that one record
C38_Witness ==
    /\ pc[Scanner] = "ov_exit"
    /\ Listed(SecondScanner)
    /\ arg[SecondScanner].repo_type = Some("models")
    /\ HasFile(fs, repos_path \o <<api, models, org_a, file_n>>)
    /\ HasDir(fs, repos_path \o <<files, org_a, repo_x>>)
    /\ ret[Scanner].value.repo_counts["models"].repo_count = 1
    /\ Len(ret[SecondScanner].value) = 1

\* --------------------------------------------------------------- locking

\* a step writes collector state that threads share
SharedWritten ==
    \/ request_history' # request_history
    \/ request_counts' # request_counts
    \/ response_times' # response_times
    \/ bytes_transferred' # bytes_transferred
    \/ system_history' # system_history
    \/ cache_hit_count' # cache_hit_count
    \/ cache_miss_count' # cache_miss_count
    \/ total_requests' # total_requests
    \/ last_disk_io' # last_disk_io
    \/ last_network_io' # last_network_io

\* C5: every write to shared collector state (the histories, the
\* per-endpoint maps, the cache counters and the sampler baselines
\* _last_disk_io / _last_network_io) is made by a thread holding the lock.
C5_WritesHoldLock ==
    [][\A t \in Threads : (pc'[t] # pc[t] /\ SharedWritten) => lock = t]_vars

====
